---- MODULE Spec2Model ----
(***************************************************************************)
(* A model of the mypacman simulation engine: Board (tiles, walkability,   *)
(* tunnel wrap, pellet consumption) and Game (start_game, update_game,     *)
(* ghost pass, collision resolution, win check).                           *)
(*                                                                         *)
(* Conventions                                                             *)
(*  - a position or a direction is a pair <<x, y>>; Python's None is the   *)
(*    empty tuple <<>> (the terminate sentinel of get_direction, the       *)
(*    player before start_game, _los_direction's "no line of sight");      *)
(*  - floats (speed_scale, cell_aspect, the accumulators) are fixed-point  *)
(*    thousandths: 1.0 is 1000, 0.512 is 512;                              *)
(*  - time.time() is the integer variable now (seconds); the clock         *)
(*    advances while update_game waits for input and every read of the     *)
(*    clock inside one tick returns the same value;                        *)
(*  - random.choice is a nondeterministic choice;                          *)
(*  - renderer and terminal calls have no effect on the engine state and   *)
(*    are left out.                                                        *)
(***************************************************************************)
EXTENDS Integers, Sequences, FiniteSets, TLC

\* ---------------------------------------------------------------- bounds
\* Board(width, height): the 5x5 board of test_pellet_consumption_and_level_end
Width == 5
Height == 5
\* the run loop is cut after this many counted ticks (Game.state)
MaxTicks == 4
\* the clock stops advancing once it has reached MaxTime
MaxTime == 10
\* seconds that may pass while a tick waits for input: 0 or TimeStep
TimeStep == 5

\* ------------------------------------------------------ program constants
TILE_EMPTY == 0
TILE_WALL == 1
TILE_PELLET == 2
TILE_POWER == 3
PelletPoints == 10
PowerPoints == 50
\* time.time() + 10.0
SuperDuration == 10
\* fixed point: 1.0
One == 1000
\* ghost_speed_scale = speed_scale * 0.512
GhostSpeedFactor == 512

None == <<>>
Zero == <<0, 0>>
\* the enumeration order used by every loop over directions in game.py
Dirs == << <<1, 0>>, <<-1, 0>>, <<0, 1>>, <<0, -1>> >>
DirSet == {Dirs[i] : i \in 1..4}
\* what InputHandler.get_direction can return
Inputs == {None, Zero} \cup DirSet

Abs(n) == IF n < 0 THEN -n ELSE n
Max(a, b) == IF a >= b THEN a ELSE b
Manhattan(p, q) == Abs(p[1] - q[1]) + Abs(p[2] - q[2])

AllCells == (0..(Width - 1)) \X (0..(Height - 1))
Interior == (1..(Width - 2)) \X (1..(Height - 2))

VARIABLES
  tiles,          \* Board.tiles, as [AllCells -> tile]
  tunnel_rows,    \* Board.tunnel_rows
  tunnel_cols,    \* Board.tunnel_cols
  player,         \* Player position, None before start_game
  ghosts,         \* Game.ghosts: sequence of [pos, dir]
  is_running, is_frozen, level_complete, caught_by_ghost,
  super_active, super_until,
  desired_dir, current_dir, last_axis,
  speed_acc, ghost_acc,
  score,
  state,          \* Game.state, the counter of completed ticks
  cell_aspect, speed_scale, ghosts_count, freeze_on_win,   \* configuration
  now,            \* the wall clock
  last,           \* history: what the last operation did
  maze,           \* two runs of Board.generate_maze fed with the same random draws
  probe           \* a Board and the last call made on it (Board's methods alone)

cfgvars == <<tunnel_rows, tunnel_cols, cell_aspect, speed_scale, ghosts_count, freeze_on_win>>
gamevars == <<tiles, tunnel_rows, tunnel_cols, player, ghosts, is_running, is_frozen,
              level_complete, caught_by_ghost, super_active, super_until, desired_dir,
              current_dir, last_axis, speed_acc, ghost_acc, score, state, cell_aspect,
              speed_scale, ghosts_count, freeze_on_win, now, last>>
auxvars == <<maze, probe>>
vars == <<gamevars, auxvars>>

\* the value of maze while no generator run is modelled (Game(maze=False))
NoMaze == <<>>
\* the value of probe while Board is driven by Game
NoProbe == <<>>

\* ------------------------------------------------------------------ Board
\* center_position computed from the full width and height
center_position_outer == <<1 + (Width \div 2), 1 + (Height \div 2)>>

center_position == <<1 + ((Width - 2) \div 2), 1 + ((Height - 2) \div 2)>>
cx == center_position[1]
cy == center_position[2]

\* Board._init_tiles: border cells EMPTY, inner cells PELLET
InitTiles == [c \in AllCells |-> IF c \in Interior THEN TILE_PELLET ELSE TILE_EMPTY]

\* the board after set_empty on every inner cell and then set_wall, set_pellet
\* and set_power on the given cells (the setup calls of the tests)
EditedTiles(walls, pellets, powers) ==
  [c \in AllCells |->
     IF c \notin Interior THEN TILE_EMPTY
     ELSE IF c \in walls THEN TILE_WALL
     ELSE IF c \in pellets THEN TILE_PELLET
     ELSE IF c \in powers THEN TILE_POWER
     ELSE TILE_EMPTY]

count_pellets(t) == Cardinality({c \in Interior : t[c] \in {TILE_PELLET, TILE_POWER}})
count_power(t) == Cardinality({c \in Interior : t[c] = TILE_POWER})

\* consume_pellet with the power-pellet branch returning the pellet value
consume_points_power10(t, p) ==
  IF t[p] \in {TILE_PELLET, TILE_POWER} THEN PelletPoints ELSE 0

\* consume_pellet without the power-pellet branch
consume_points_pelletonly(t, p) ==
  IF t[p] = TILE_PELLET THEN PelletPoints ELSE 0

\* points earned by consume_pellet at cell p
consume_points(t, p) ==
  IF t[p] = TILE_PELLET THEN PelletPoints
  ELSE IF t[p] = TILE_POWER THEN PowerPoints
  ELSE 0

\* consume_pellet emptying the cell to the right of p as well
consume_tiles_right(t, p) ==
  LET q == <<p[1] + 1, p[2]>> IN
  [c \in DOMAIN t |-> IF c \in {p, q} /\ t[c] \in {TILE_PELLET, TILE_POWER}
                        THEN TILE_EMPTY ELSE t[c]]

\* consume_pellet without the assignment of TILE_EMPTY
consume_tiles_keep(t, p) == t

\* consume_pellet emptying every tile that is not EMPTY
consume_tiles_anytile(t, p) ==
  IF t[p] # TILE_EMPTY THEN [t EXCEPT ![p] = TILE_EMPTY] ELSE t

\* the tiles after consume_pellet at cell p
consume_tiles(t, p) ==
  IF t[p] \in {TILE_PELLET, TILE_POWER} THEN [t EXCEPT ![p] = TILE_EMPTY] ELSE t

\* is_walkable without the WALL test
is_walkable_nowall(t, x, y) ==
  ~(x <= 0 \/ x >= Width - 1 \/ y <= 0 \/ y >= Height - 1)

\* is_walkable with "x < 0" for "x <= 0"
is_walkable_offbyone(t, x, y) ==
  IF x < 0 \/ x >= Width - 1 \/ y <= 0 \/ y >= Height - 1
    THEN FALSE
    ELSE t[<<x, y>>] # TILE_WALL

is_walkable(t, x, y) ==
  IF x <= 0 \/ x >= Width - 1 \/ y <= 0 \/ y >= Height - 1
    THEN FALSE
    ELSE t[<<x, y>>] # TILE_WALL

can_move(t, p, d) ==
  LET x == p[1]  y == p[2]  dx == d[1]  dy == d[2] IN
  \/ is_walkable(t, x + dx, y + dy)
  \/ /\ dy = 0
     /\ y \in tunnel_rows
     /\ \/ dx < 0 /\ x = 1 /\ is_walkable(t, Width - 2, y)
        \/ dx > 0 /\ x = Width - 2 /\ is_walkable(t, 1, y)
  \/ /\ dx = 0
     /\ x \in tunnel_cols
     /\ \/ dy < 0 /\ y = 1 /\ is_walkable(t, x, Height - 2)
        \/ dy > 0 /\ y = Height - 2 /\ is_walkable(t, x, 1)

\* apply_move without the "y in self.tunnel_rows" test
apply_move_anyrow(t, p, d) ==
  LET x == p[1]  y == p[2]  dx == d[1]  dy == d[2] IN
  IF is_walkable(t, x + dx, y + dy) THEN <<x + dx, y + dy>>
  ELSE IF dy = 0 /\ dx < 0 /\ x = 1 /\ is_walkable(t, Width - 2, y)
    THEN <<Width - 2, y>>
  ELSE IF dy = 0 /\ dx > 0 /\ x = Width - 2 /\ is_walkable(t, 1, y)
    THEN <<1, y>>
  ELSE IF dx = 0 /\ x \in tunnel_cols /\ dy < 0 /\ y = 1 /\ is_walkable(t, x, Height - 2)
    THEN <<x, Height - 2>>
  ELSE IF dx = 0 /\ x \in tunnel_cols /\ dy > 0 /\ y = Height - 2 /\ is_walkable(t, x, 1)
    THEN <<x, 1>>
  ELSE p

apply_move(t, p, d) ==
  LET x == p[1]  y == p[2]  dx == d[1]  dy == d[2] IN
  IF is_walkable(t, x + dx, y + dy) THEN <<x + dx, y + dy>>
  ELSE IF dy = 0 /\ y \in tunnel_rows /\ dx < 0 /\ x = 1 /\ is_walkable(t, Width - 2, y)
    THEN <<Width - 2, y>>
  ELSE IF dy = 0 /\ y \in tunnel_rows /\ dx > 0 /\ x = Width - 2 /\ is_walkable(t, 1, y)
    THEN <<1, y>>
  ELSE IF dx = 0 /\ x \in tunnel_cols /\ dy < 0 /\ y = 1 /\ is_walkable(t, x, Height - 2)
    THEN <<x, Height - 2>>
  ELSE IF dx = 0 /\ x \in tunnel_cols /\ dy > 0 /\ y = Height - 2 /\ is_walkable(t, x, 1)
    THEN <<x, 1>>
  ELSE p

\* ------------------------------------------------------------ Ghost AI
DirIndex(d) == CHOOSE i \in 1..4 : Dirs[i] = d
Ghost(p, d) == [pos |-> p, dir |-> d]

\* _los_direction without the "if x1 == x2" half
los_direction_rowonly(t, start, goal) ==
  LET x1 == start[1]  y1 == start[2]  x2 == goal[1]  y2 == goal[2] IN
  IF y1 = y2 THEN
    IF x1 < x2
      THEN IF \E xx \in (x1 + 1)..(x2 - 1) : t[<<xx, y1>>] = TILE_WALL THEN None ELSE <<1, 0>>
      ELSE IF \E xx \in (x2 + 1)..(x1 - 1) : t[<<xx, y1>>] = TILE_WALL THEN None ELSE <<-1, 0>>
  ELSE None

\* Game._los_direction: the direction towards goal on a shared row or column
\* with no WALL tile strictly between, else None
los_direction(t, start, goal) ==
  LET x1 == start[1]  y1 == start[2]  x2 == goal[1]  y2 == goal[2] IN
  IF y1 = y2 THEN
    IF x1 < x2
      THEN IF \E xx \in (x1 + 1)..(x2 - 1) : t[<<xx, y1>>] = TILE_WALL THEN None ELSE <<1, 0>>
      ELSE IF \E xx \in (x2 + 1)..(x1 - 1) : t[<<xx, y1>>] = TILE_WALL THEN None ELSE <<-1, 0>>
  ELSE IF x1 = x2 THEN
    IF y1 < y2
      THEN IF \E yy \in (y1 + 1)..(y2 - 1) : t[<<x1, yy>>] = TILE_WALL THEN None ELSE <<0, 1>>
      ELSE IF \E yy \in (y2 + 1)..(y1 - 1) : t[<<x1, yy>>] = TILE_WALL THEN None ELSE <<0, -1>>
  ELSE None

\* _ghost_random_step without the exclusion of the reverse direction
ghost_random_step_anydir(t, pos, cur_dir) ==
  {d \in DirSet : can_move(t, pos, d)}

\* Game._ghost_random_step: the set random.choice draws from (empty: (None, None))
ghost_random_step(t, pos, cur_dir) ==
  LET options == {d \in DirSet : can_move(t, pos, d)}
      reverse == <<-cur_dir[1], -cur_dir[2]>>
  IN IF Cardinality(options) > 1 /\ reverse \in options
       THEN options \ {reverse}
       ELSE options

\* Game._init_ghost_dir: the first legal direction of dirs sorted (stably) by the
\* Manhattan distance to the target after the move, or (0, 0)
init_ghost_dir(t, pos, target) ==
  LET legal == {i \in 1..4 : can_move(t, pos, Dirs[i])}
      key(i) == Manhattan(apply_move(t, pos, Dirs[i]), target)
  IN IF legal = {} THEN Zero
     ELSE Dirs[CHOOSE i \in legal :
                 \A j \in legal : key(i) < key(j) \/ (key(i) = key(j) /\ i <= j)]

\* a step block without its set_direction call
TryStep_keepdir(t, p0, d, r) ==
  IF can_move(t, p0, d) /\ apply_move(t, p0, d) # p0
    THEN [pos |-> apply_move(t, p0, d), dir |-> r.dir, moved |-> TRUE]
    ELSE r

\* one "can_move, apply_move, set_position, set_direction, moved = True" block of
\* _update_ghosts, always computed from the ghost's cell p0 at the start of its turn
TryStep(t, p0, d, r) ==
  IF can_move(t, p0, d) /\ apply_move(t, p0, d) # p0
    THEN [pos |-> apply_move(t, p0, d), dir |-> d, moved |-> TRUE]
    ELSE r

\* the flee loop of _update_ghosts (super mode): the first direction, in
\* enumeration order, whose destination is farthest from the target
FleeStep(t, p0, target, r) ==
  LET cand == {i \in 1..4 : can_move(t, p0, Dirs[i]) /\ apply_move(t, p0, Dirs[i]) # p0}
      dist(i) == Manhattan(apply_move(t, p0, Dirs[i]), target)
  IN IF cand = {} THEN r
     ELSE LET best == CHOOSE i \in cand :
                        \A j \in cand : dist(i) > dist(j) \/ (dist(i) = dist(j) /\ i <= j)
          IN [pos |-> apply_move(t, p0, Dirs[best]), dir |-> Dirs[best], moved |-> TRUE]

\* a "1) If line of sight" block of _update_ghosts
LosStep(t, p0, target, r) ==
  LET los == los_direction(t, p0, target)
  IN IF los = None THEN r ELSE TryStep(t, p0, los, r)

\* a "2) Otherwise, wander randomly" block of _update_ghosts
WanderSteps(t, p0, d0, r) ==
  IF r.moved THEN {r}
  ELSE LET opts == ghost_random_step(t, p0, d0)
       IN IF opts = {} THEN {r} ELSE {TryStep(t, p0, d, r) : d \in opts}

\* the second, unconditional line-of-sight and wander blocks of the loop body
TailSteps(t, g, target, r) ==
  WanderSteps(t, g.pos, g.dir, LosStep(t, g.pos, target, r))

\* the loop body with the chase branch reduced to the random step
GhostMoves_wanderonly(t, g, target, super) ==
  LET r0 == [pos |-> g.pos, dir |-> g.dir, moved |-> FALSE]
      mark(S, e) == {[pos |-> r.pos, dir |-> r.dir, moved |-> r.moved, early |-> e] : r \in S}
  IN IF super
       THEN mark(TailSteps(t, g, target, FleeStep(t, g.pos, target, r0)), FALSE)
       ELSE mark(WanderSteps(t, g.pos, g.dir, r0), FALSE)

\* the movement part of the loop body of _update_ghosts for ghost g: the set of
\* [pos, dir, moved, early]; early is the return of the adjacent-step branch
GhostMoves(t, g, target, super) ==
  LET r0 == [pos |-> g.pos, dir |-> g.dir, moved |-> FALSE]
      mark(S, e) == {[pos |-> r.pos, dir |-> r.dir, moved |-> r.moved, early |-> e] : r \in S}
  IN IF super
       THEN mark(TailSteps(t, g, target, FleeStep(t, g.pos, target, r0)), FALSE)
       ELSE LET dd == <<target[1] - g.pos[1], target[2] - g.pos[2]>>
                rA == IF Abs(dd[1]) + Abs(dd[2]) = 1 THEN TryStep(t, g.pos, dd, r0) ELSE r0
            IN IF rA.moved
                 THEN IF rA.pos = target
                        THEN mark({rA}, TRUE)
                        ELSE mark(TailSteps(t, g, target, rA), FALSE)
                 ELSE mark(UNION {TailSteps(t, g, target, rC) :
                                    rC \in WanderSteps(t, g.pos, g.dir,
                                                       LosStep(t, g.pos, target, r0))},
                           FALSE)

\* Game._update_ghosts from the i-th ghost of the list the loop iterates over:
\* kept are the processed ghosts still in self.ghosts; the result is the set of
\* possible [ghosts, caught] when the method returns
RECURSIVE update_ghosts(_, _, _, _, _, _)
update_ghosts(t, orig, i, kept, target, super) ==
  IF i > Len(orig) THEN {[ghosts |-> kept, caught |-> FALSE]}
  ELSE LET rest == SubSeq(orig, i + 1, Len(orig))
           after(m) ==
             IF m.early \/ (m.pos = target /\ ~super)
               THEN {[ghosts |-> kept \o <<Ghost(m.pos, m.dir)>> \o rest, caught |-> TRUE]}
             ELSE IF m.pos = target
               THEN update_ghosts(t, orig, i + 1, kept, target, super)
             ELSE update_ghosts(t, orig, i + 1,
                    Append(kept, Ghost(m.pos, IF m.moved THEN m.dir
                                              ELSE init_ghost_dir(t, m.pos, target))),
                    target, super)
       IN UNION {after(m) : m \in GhostMoves(t, orig[i], target, super)}

\* _check_collisions removing the ghosts on the player's cell in either mode
check_collisions_eatalways(gs, ppos, super, frozen) ==
  IF gs = <<>> \/ frozen THEN [ghosts |-> gs, caught |-> FALSE]
  ELSE [ghosts |-> SelectSeq(gs, LAMBDA g : g.pos # ppos), caught |-> FALSE]

\* _check_collisions without the game-over branch
check_collisions_nocatch(gs, ppos, super, frozen) ==
  IF gs = <<>> \/ frozen THEN [ghosts |-> gs, caught |-> FALSE]
  ELSE IF super /\ \E i \in 1..Len(gs) : gs[i].pos = ppos
    THEN [ghosts |-> SelectSeq(gs, LAMBDA g : g.pos # ppos), caught |-> FALSE]
  ELSE [ghosts |-> gs, caught |-> FALSE]

\* _check_collisions without the removal of the eaten ghosts
check_collisions_noeat(gs, ppos, super, frozen) ==
  IF gs = <<>> \/ frozen THEN [ghosts |-> gs, caught |-> FALSE]
  ELSE IF ~super /\ \E i \in 1..Len(gs) : gs[i].pos = ppos
    THEN [ghosts |-> gs, caught |-> TRUE]
  ELSE [ghosts |-> gs, caught |-> FALSE]

\* Game._check_collisions: [ghosts, caught]
check_collisions(gs, ppos, super, frozen) ==
  IF gs = <<>> \/ frozen THEN [ghosts |-> gs, caught |-> FALSE]
  ELSE IF \E i \in 1..Len(gs) : gs[i].pos = ppos
    THEN IF super
           THEN [ghosts |-> SelectSeq(gs, LAMBDA g : g.pos # ppos), caught |-> FALSE]
           ELSE [ghosts |-> gs, caught |-> TRUE]
  ELSE [ghosts |-> gs, caught |-> FALSE]

\* ------------------------------------------------------------ start_game
Corners == << <<1, 1>>, <<Width - 2, 1>>, <<1, Height - 2>>, <<Width - 2, Height - 2>> >>
\* the inner cells in the order of "for y ...: for x ..."
ScanCells == [k \in 1..((Width - 2) * (Height - 2)) |->
                <<1 + ((k - 1) % (Width - 2)), 1 + ((k - 1) \div (Width - 2))>>]

RECURSIVE Dedup(_)
Dedup(s) ==
  IF s = <<>> THEN <<>>
  ELSE LET r == Dedup(SubSeq(s, 1, Len(s) - 1))
           x == s[Len(s)]
       IN IF \E i \in 1..Len(r) : r[i] = x THEN r ELSE Append(r, x)

\* Game._spawn_ghosts: the spawn cells, then the initial directions
spawn_ghosts(t, n, ppos) ==
  LET corners == SelectSeq(Corners, LAMBDA c : is_walkable(t, c[1], c[2]))
      scan == SelectSeq(ScanCells, LAMBDA c : is_walkable(t, c[1], c[2]))
      cands == IF Len(corners) < n THEN corners \o scan ELSE corners
      uniq == Dedup(SelectSeq(cands, LAMBDA c : c # ppos))
      cell(i) == IF i <= Len(uniq) THEN uniq[i] ELSE center_position
  IN [i \in 1..Max(0, n) |-> Ghost(cell(i), init_ghost_dir(t, cell(i), ppos))]

\* ------------------------------------------------------------- Game state
Axis(d) == IF d[1] # 0 THEN "h" ELSE "v"

\* history record of the last operation: op is "new", "start" or "tick"; for a
\* tick, dir is the value get_direction returned, exit names the return statement
\* update_game left through, pass tells whether _update_ghosts ran, moved is the
\* flag of that name in update_game (the post-move collision check ran), stepped
\* tells whether player.set_position was called, points is what consume_pellet
\* returned; eaten, was_super, was_until, turned, axis and credit are filled in
\* by Tick: the number of ghosts removed, super_active and super_until when the
\* tick began, whether the tick changed the committed direction and, for a tick
\* that got to the pacing, its intended axis and the credit added to _speed_acc;
\* credits counts the ticks that added the credit since the player's last step,
\* this tick included; quits counts the ticks given None in a row, this tick
\* included
Hist(op, dir, exit, pass, moved, stepped, points) ==
  [op |-> op, dir |-> dir, exit |-> exit, pass |-> pass, moved |-> moved,
   stepped |-> stepped, points |-> points, eaten |-> 0, was_super |-> FALSE,
   was_until |-> 0, turned |-> FALSE, axis |-> "none", credit |-> 0, credits |-> 0,
   quits |-> 0]

\* the boards a run starts from: Board() as constructed, and boards prepared with
\* set_empty / set_wall / set_pellet / set_power before start_game (the last one
\* is the T of test_buffered_turn: a wall above the center)
Layouts ==
  { InitTiles,
    EditedTiles({}, {<<cx + 1, cy>>}, {}),
    EditedTiles({<<cx + 1, cy + 1>>}, {<<1, Height - 2>>}, {<<cx + 1, cy>>, <<cx, cy - 1>>}),
    EditedTiles({<<Width - 2, cy>>}, {<<cx - 1, cy + 1>>}, {<<cx, cy + 1>>}),
    EditedTiles({<<cx, 1>>, <<1, 1>>}, {<<1, cy>>}, {}),
    EditedTiles({<<cx, cy - 1>>}, {<<1, Height - 2>>}, {}) }

\* tunnel_rows / tunnel_cols: none (Board.__init__), or the center row and column
TunnelConfigs == { <<{}, {}>>, <<{cy}, {cx}>> }
\* Game(cell_aspect=...): 1.0 (default) and 2.0 (main.py)
CellAspects == {1000, 2000}
\* Game(speed_scale=...): 1.0 (default)
SpeedScales == {1000}
\* Game(ghosts_count=...): 0 (default), 1, 2
GhostCounts == {0, 1, 2}

\* ghosts as fast as the player
ghost_speed_scale_full == speed_scale

ghost_speed_scale == (speed_scale * GhostSpeedFactor) \div One

\* Board.__init__ and Game.__init__, and the setup calls made before start_game
Init ==
  /\ tiles \in Layouts
  /\ \E tc \in TunnelConfigs : tunnel_rows = tc[1] /\ tunnel_cols = tc[2]
  /\ cell_aspect \in CellAspects
  /\ speed_scale \in SpeedScales
  /\ ghosts_count \in GhostCounts
  /\ freeze_on_win \in BOOLEAN
  /\ player = None
  /\ ghosts = <<>>
  /\ is_running = FALSE
  /\ is_frozen = FALSE
  /\ level_complete = FALSE
  /\ caught_by_ghost = FALSE
  /\ super_active = FALSE
  /\ super_until = 0
  /\ desired_dir = Zero
  /\ current_dir = Zero
  /\ last_axis = "none"
  /\ speed_acc = 0
  /\ ghost_acc = 0
  /\ score = 0
  /\ state = 0
  /\ now = 0
  /\ last = Hist("new", Zero, "none", FALSE, FALSE, FALSE, 0)
  /\ maze = NoMaze
  /\ probe = NoProbe

\* Game.start_game on a board without a generated maze (the terminal is large
\* enough): center the player, reset the accumulators, spawn the ghosts
StartGame ==
  /\ last.op = "new"
  /\ player' = center_position
  /\ speed_acc' = 0
  /\ ghost_acc' = 0
  /\ last_axis' = "none"
  /\ is_running' = TRUE
  /\ state' = 0
  /\ ghosts' = spawn_ghosts(tiles, ghosts_count, center_position)
  /\ last' = Hist("start", Zero, "none", FALSE, FALSE, FALSE, 0)
  /\ UNCHANGED <<tiles, is_frozen, level_complete, caught_by_ghost, super_active,
                 super_until, desired_dir, current_dir, score, now>>
  /\ UNCHANGED <<cfgvars, auxvars>>

\* ------------------------------------------------------------ update_game
\* the fields update_game can change, as a record
Cur ==
  [tiles |-> tiles, player |-> player, ghosts |-> ghosts, is_running |-> is_running,
   is_frozen |-> is_frozen, level_complete |-> level_complete,
   caught_by_ghost |-> caught_by_ghost, super_active |-> super_active,
   super_until |-> super_until, desired_dir |-> desired_dir,
   current_dir |-> current_dir, last_axis |-> last_axis, speed_acc |-> speed_acc,
   ghost_acc |-> ghost_acc, score |-> score, state |-> state, last |-> last]

\* the frozen branch resuming the game when a direction is given
FrozenTick_resume(dir) ==
  [Cur EXCEPT !.is_running = IF dir = None THEN FALSE ELSE @,
              !.is_frozen = IF dir \in DirSet THEN FALSE ELSE @,
              !.last = Hist("tick", dir, "frozen", FALSE, FALSE, FALSE, 0)]

\* the frozen branch without "if dir_vec is None: self.is_running = False"
FrozenTick_noquit(dir) ==
  [Cur EXCEPT !.last = Hist("tick", dir, "frozen", FALSE, FALSE, FALSE, 0)]

\* the frozen branch with the mode expiry and the tick counter moved above it
FrozenTick_counts(dir) ==
  [Cur EXCEPT !.is_running = IF dir = None THEN FALSE ELSE @,
              !.state = @ + 1,
              !.last = Hist("tick", dir, "frozen", FALSE, FALSE, FALSE, 0)]

\* "if self.is_frozen: ... return": only a quit is honoured
FrozenTick(dir) ==
  [Cur EXCEPT !.is_running = IF dir = None THEN FALSE ELSE @,
              !.last = Hist("tick", dir, "frozen", FALSE, FALSE, FALSE, 0)]

\* the win check without "or (len(self.ghosts) == 0)"
WinCheck_pelletsonly(r, dir, pass, moved, stepped, points) ==
  IF count_pellets(r.tiles) = 0
    THEN IF freeze_on_win
           THEN [r EXCEPT !.level_complete = TRUE, !.is_frozen = TRUE,
                          !.last = Hist("tick", dir, "won_freeze", pass, moved, stepped, points)]
           ELSE [r EXCEPT !.level_complete = TRUE, !.is_running = FALSE,
                          !.state = @ + 1,
                          !.last = Hist("tick", dir, "end", pass, moved, stepped, points)]
    ELSE [r EXCEPT !.state = @ + 1,
                   !.last = Hist("tick", dir, "end", pass, moved, stepped, points)]

\* the win check with "and" for "or"
WinCheck_and(r, dir, pass, moved, stepped, points) ==
  IF count_pellets(r.tiles) = 0 /\ Len(r.ghosts) = 0
    THEN IF freeze_on_win
           THEN [r EXCEPT !.level_complete = TRUE, !.is_frozen = TRUE,
                          !.last = Hist("tick", dir, "won_freeze", pass, moved, stepped, points)]
           ELSE [r EXCEPT !.level_complete = TRUE, !.is_running = FALSE,
                          !.state = @ + 1,
                          !.last = Hist("tick", dir, "end", pass, moved, stepped, points)]
    ELSE [r EXCEPT !.state = @ + 1,
                   !.last = Hist("tick", dir, "end", pass, moved, stepped, points)]

\* the win check at the end of update_game, from the record r built so far
WinCheck(r, dir, pass, moved, stepped, points) ==
  IF count_pellets(r.tiles) = 0 \/ Len(r.ghosts) = 0
    THEN IF freeze_on_win
           THEN [r EXCEPT !.level_complete = TRUE, !.is_frozen = TRUE,
                          !.last = Hist("tick", dir, "won_freeze", pass, moved, stepped, points)]
           ELSE [r EXCEPT !.level_complete = TRUE, !.is_running = FALSE,
                          !.state = @ + 1,
                          !.last = Hist("tick", dir, "end", pass, moved, stepped, points)]
    ELSE [r EXCEPT !.state = @ + 1,
                   !.last = Hist("tick", dir, "end", pass, moved, stepped, points)]

\* the auto-turn block taken only once the committed direction is zero or blocked
auto_turn_after_stop(t, p, cur, desired) ==
  IF /\ desired # cur /\ desired # Zero /\ can_move(t, p, desired)
     /\ (cur = Zero \/ ~can_move(t, p, cur))
    THEN desired ELSE cur

\* "Auto-turn if possible": the committed direction after the block
auto_turn(t, p, cur, desired) ==
  IF desired # cur /\ desired # Zero /\ can_move(t, p, desired) THEN desired ELSE cur

\* the buffering step storing whatever get_direction returned
buffer_dir_reset(desired, dir) == dir

\* "Buffered input: remember desired direction when non-zero"
buffer_dir(desired, dir) == IF dir # Zero THEN dir ELSE desired

\* "Determine intended axis for this tick": the axis of the desired direction
\* when it is legal from the player's cell, else that of the committed direction
intended_axis(t, p, cur, desired) ==
  IF desired # Zero /\ can_move(t, p, desired)
    THEN Axis(desired)
    ELSE IF cur # Zero THEN Axis(cur) ELSE "none"

\* the credit granted on every tick whose axis is vertical
axis_credit_always(intended, lastaxis) ==
  IF intended = "v" /\ cell_aspect > One THEN cell_aspect - One ELSE 0

\* "If switching to vertical movement, grant a one-time credit": what is added
\* to _speed_acc besides speed_scale
axis_credit(intended, lastaxis) ==
  IF /\ intended # "none" /\ lastaxis # "none" /\ intended # lastaxis
     /\ intended = "v" /\ cell_aspect > One
    THEN cell_aspect - One
    ELSE 0

\* a threshold for vertical travel that _speed_acc does not reach
step_threshold_high(intended) ==
  IF intended # "v" THEN One ELSE 100 * Max(One, cell_aspect)

\* the threshold without the vertical case
step_threshold_flat(intended) == One

\* "Threshold depends on axis"
step_threshold(intended) == IF intended # "v" THEN One ELSE Max(One, cell_aspect)

\* the return after the player's move taken only when the level is not won
post_move_return_unless_won(caught, r1) ==
  caught /\ ~(count_pellets(r1.tiles) = 0 \/ Len(r1.ghosts) = 0)

\* "if self._check_collisions(): self.state += 1; return" after the player's
\* move, ahead of the win check
post_move_return(caught, r1) == caught

\* update_game from "if dir_vec is None" on: quit, buffering, pacing, auto-turn,
\* step, pellet consumption, collision check, win check. r holds the state after
\* the expiry and the ghost pass, t is the clock
PlayerPhase(r, dir, t, pass) ==
  IF dir = None
    THEN [r EXCEPT !.is_running = FALSE,
                   !.last = Hist("tick", dir, "quit", pass, FALSE, FALSE, 0)]
  ELSE
  LET desired1 == buffer_dir(r.desired_dir, dir)
      intended == intended_axis(r.tiles, r.player, r.current_dir, desired1)
      sacc1 == r.speed_acc + Max(0, speed_scale)
      sacc2 == sacc1 + axis_credit(intended, r.last_axis)
      threshold == step_threshold(intended)
  IN
  IF sacc2 < threshold
    THEN [r EXCEPT !.desired_dir = desired1, !.speed_acc = sacc2, !.state = @ + 1,
                   !.last = Hist("tick", dir, "paced", pass, FALSE, FALSE, 0)]
  ELSE
  LET cur1 == auto_turn(r.tiles, r.player, r.current_dir, desired1)
      turn == cur1 # r.current_dir
      step == cur1 # Zero /\ can_move(r.tiles, r.player, cur1)
              /\ apply_move(r.tiles, r.player, cur1) # r.player
      pos1 == IF step THEN apply_move(r.tiles, r.player, cur1) ELSE r.player
      moved == turn \/ step
      points == IF moved THEN consume_points(r.tiles, pos1) ELSE 0
      tiles1 == IF moved THEN consume_tiles(r.tiles, pos1) ELSE r.tiles
      super1 == IF points >= PowerPoints THEN TRUE ELSE r.super_active
      until1 == IF points >= PowerPoints THEN t + SuperDuration ELSE r.super_until
      cc == IF moved THEN check_collisions(r.ghosts, pos1, super1, FALSE)
            ELSE [ghosts |-> r.ghosts, caught |-> FALSE]
      r1 == [r EXCEPT !.desired_dir = desired1, !.speed_acc = sacc2 - threshold,
                      !.current_dir = cur1, !.player = pos1,
                      !.last_axis = IF step THEN Axis(cur1) ELSE @,
                      !.tiles = tiles1, !.score = @ + points,
                      !.super_active = super1, !.super_until = until1,
                      !.ghosts = cc.ghosts]
  IN
  IF post_move_return(cc.caught, r1)
    THEN [r1 EXCEPT !.caught_by_ghost = TRUE, !.is_frozen = TRUE, !.state = @ + 1,
                    !.last = Hist("tick", dir, "caught_move", pass, moved, step, points)]
    ELSE WinCheck([r1 EXCEPT !.super_active = IF @ /\ t >= until1 THEN FALSE ELSE @],
                  dir, pass, moved, step, points)

\* update_game going on to the player's part of the tick after a catch
AfterPass_noreturn(r, dir, t, po) ==
  LET cc == check_collisions(po.ghosts, r.player, r.super_active, po.caught)
      r1 == [r EXCEPT !.ghosts = cc.ghosts]
      n == PlayerPhase(r1, dir, t, TRUE)
  IN IF cc.caught \/ po.caught
       THEN [n EXCEPT !.caught_by_ghost = TRUE, !.is_frozen = TRUE,
                      !.last = Hist("tick", dir, "caught_pass", TRUE, FALSE, FALSE, 0)]
       ELSE n

\* update_game with a catch in the ghost pass that does not freeze
AfterPass_nofreeze(r, dir, t, po) ==
  LET cc == check_collisions(po.ghosts, r.player, r.super_active, po.caught)
      r1 == [r EXCEPT !.ghosts = cc.ghosts]
  IN IF cc.caught \/ po.caught
       THEN [r1 EXCEPT !.caught_by_ghost = TRUE, !.state = @ + 1,
                       !.last = Hist("tick", dir, "caught_pass", TRUE, FALSE, FALSE, 0)]
       ELSE PlayerPhase(r1, dir, t, TRUE)

\* update_game after _update_ghosts returned po = [ghosts, caught]: the collision
\* check that follows the pass, then the rest of the tick
AfterPass(r, dir, t, po) ==
  LET cc == check_collisions(po.ghosts, r.player, r.super_active, po.caught)
      r1 == [r EXCEPT !.ghosts = cc.ghosts]
  IN IF cc.caught \/ po.caught
       THEN [r1 EXCEPT !.caught_by_ghost = TRUE, !.is_frozen = TRUE, !.state = @ + 1,
                       !.last = Hist("tick", dir, "caught_pass", TRUE, FALSE, FALSE, 0)]
       ELSE PlayerPhase(r1, dir, t, TRUE)

\* update_game without "Expire super mode based on wall clock"
update_game_noexpiry(dir, t) ==
  IF is_frozen THEN {FrozenTick(dir)}
  ELSE
  LET acc1 == IF ghosts # <<>> THEN ghost_acc + Max(0, ghost_speed_scale) ELSE ghost_acc
      pass == ghosts # <<>> /\ acc1 >= One
      r == [Cur EXCEPT !.ghost_acc = IF pass THEN acc1 - One ELSE acc1]
  IN IF pass
       THEN {AfterPass(r, dir, t, po) :
               po \in update_ghosts(tiles, ghosts, 1, <<>>, player, super_active)}
       ELSE {PlayerPhase(r, dir, t, FALSE)}

\* one call of update_game with input dir at clock t: the set of possible results
update_game(dir, t) ==
  IF is_frozen THEN {FrozenTick(dir)}
  ELSE
  LET super1 == IF super_active /\ t >= super_until THEN FALSE ELSE super_active
      acc1 == IF ghosts # <<>> THEN ghost_acc + Max(0, ghost_speed_scale) ELSE ghost_acc
      pass == ghosts # <<>> /\ acc1 >= One
      r == [Cur EXCEPT !.super_active = super1,
                       !.ghost_acc = IF pass THEN acc1 - One ELSE acc1]
  IN IF pass
       THEN {AfterPass(r, dir, t, po) :
               po \in update_ghosts(tiles, ghosts, 1, <<>>, player, super1)}
       ELSE {PlayerPhase(r, dir, t, FALSE)}

\* the values of exit of the ticks that got to the pacing of the player
PacedExits == {"paced", "end", "won_freeze", "caught_move"}

\* the intended axis of a tick with input dir, from the state the tick begins in
TickAxis(dir) ==
  intended_axis(tiles, player, current_dir, buffer_dir(desired_dir, dir))

\* the credit added to _speed_acc by a tick with input dir that left through exit
TickCredit(exit, dir) ==
  IF exit \in PacedExits THEN axis_credit(TickAxis(dir), last_axis) ELSE 0

\* one iteration of "while self.is_running: self.update_game()" with input dir,
\* as long as fewer than cap ticks were counted
TickWithin(dir, cap) ==
  /\ is_running
  /\ state < cap
  /\ \E dt \in {0, TimeStep} :
       /\ now + dt <= MaxTime
       /\ now' = now + dt
       /\ \E n \in update_game(dir, now + dt) :
            /\ tiles' = n.tiles
            /\ player' = n.player
            /\ ghosts' = n.ghosts
            /\ is_running' = n.is_running
            /\ is_frozen' = n.is_frozen
            /\ level_complete' = n.level_complete
            /\ caught_by_ghost' = n.caught_by_ghost
            /\ super_active' = n.super_active
            /\ super_until' = n.super_until
            /\ desired_dir' = n.desired_dir
            /\ current_dir' = n.current_dir
            /\ last_axis' = n.last_axis
            /\ speed_acc' = n.speed_acc
            /\ ghost_acc' = n.ghost_acc
            /\ score' = n.score
            /\ state' = n.state
            /\ last' = [n.last EXCEPT !.eaten = Len(ghosts) - Len(n.ghosts),
                                      !.was_super = super_active,
                                      !.was_until = super_until,
                                      !.turned = (n.current_dir # current_dir),
                                      !.axis = IF n.last.exit \in PacedExits
                                                 THEN TickAxis(dir) ELSE "none",
                                      !.credit = TickCredit(n.last.exit, dir),
                                      !.credits = (IF last.stepped THEN 0 ELSE last.credits)
                                                    + (IF TickCredit(n.last.exit, dir) > 0
                                                         THEN 1 ELSE 0),
                                      !.quits = IF dir = None THEN last.quits + 1 ELSE 0]
  /\ UNCHANGED <<cfgvars, auxvars>>

Tick(dir) == TickWithin(dir, MaxTicks)

Next ==
  \/ StartGame
  \/ \E dir \in Inputs : Tick(dir)

Spec == Init /\ [][Next]_vars

\* ---------------------------------------------------------- generate_maze
\* Board(width, height, generate_maze=True): width and height range over
\* 3..MazeMax
MazeMax == 7
MazeDims == (3..MazeMax) \X (3..MazeMax)
Min(a, b) == IF a <= b THEN a ELSE b

\* Board.center_position for a board of the given dimensions
maze_center(w, h) == <<1 + ((w - 2) \div 2), 1 + ((h - 2) \div 2)>>

\* Board._odd_within
odd_within(v, lo, hi) ==
  LET c == Max(lo, Min(hi, v))
  IN IF c % 2 = 0
       THEN IF c + 1 <= hi THEN c + 1 ELSE IF c - 1 >= lo THEN c - 1 ELSE c
       ELSE c

\* the start cell of the carving: the center snapped to odd coordinates
maze_start(w, h) ==
  <<odd_within(maze_center(w, h)[1], 1, w - 2), odd_within(maze_center(w, h)[2], 1, h - 2)>>

\* dirs of generate_maze, in the order of the list
Dirs2 == << <<2, 0>>, <<-2, 0>>, <<0, 2>>, <<0, -2>> >>

\* one run of Board(w, h, generate_maze=True) after _init_tiles and before
\* generate_maze: run names the process, phase the position in generate_maze,
\* links is the number of walls the braiding pass opened
NewBoard(w, h, run) ==
  [w |-> w, h |-> h, run |-> run, phase |-> "new",
   tiles |-> [c \in (0..(w - 1)) \X (0..(h - 1)) |->
                IF 1 <= c[1] /\ c[1] <= w - 2 /\ 1 <= c[2] /\ c[2] <= h - 2
                  THEN TILE_PELLET ELSE TILE_EMPTY],
   stack |-> <<>>, tunnel_rows |-> {}, tunnel_cols |-> {}, links |-> 0]

InInner(m, c) == 1 <= c[1] /\ c[1] <= m.w - 2 /\ 1 <= c[2] /\ c[2] <= m.h - 2

\* "Set all inner cells as walls initially", the start cell, the first push
maze_reset(m) ==
  LET st == maze_start(m.w, m.h)
  IN [m EXCEPT !.tiles = [c \in DOMAIN @ |->
                            IF c = st THEN TILE_PELLET
                            ELSE IF InInner(m, c) THEN TILE_WALL ELSE @[c]],
               !.stack = <<st>>,
               !.phase = "dfs"]

\* the neighbours list built in an order that depends on the process (as the
\* iteration order of a set would)
maze_neighbors_unordered(m) ==
  LET top == m.stack[Len(m.stack)]
      ok(i) == LET n == <<top[1] + Dirs2[i][1], top[2] + Dirs2[i][2]>>
               IN InInner(m, n) /\ m.tiles[n] = TILE_WALL
  IN SelectSeq(IF m.run = 1 THEN <<1, 2, 3, 4>> ELSE <<4, 3, 2, 1>>, ok)

\* the list "neighbors" of the loop body: the indices into dirs, in list order,
\* of the cells two steps from the top of the stack that are still WALL
maze_neighbors(m) ==
  LET top == m.stack[Len(m.stack)]
      ok(i) == LET n == <<top[1] + Dirs2[i][1], top[2] + Dirs2[i][2]>>
               IN InInner(m, n) /\ m.tiles[n] = TILE_WALL
  IN SelectSeq(<<1, 2, 3, 4>>, ok)

\* the carving step without "self.tiles[wy][wx] = self.TILE_PELLET"
maze_carve_nolink(m, d) ==
  LET top == m.stack[Len(m.stack)]
      nb == maze_neighbors(m)
      dd == Dirs2[nb[1 + (d % Len(nb))]]
      n == <<top[1] + dd[1], top[2] + dd[2]>>
  IN [m EXCEPT !.tiles = [@ EXCEPT ![n] = TILE_PELLET],
               !.stack = Append(@, n)]

\* "if neighbors": rng.choice with draw d, carve the wall between and the
\* neighbour, push the neighbour
maze_carve(m, d) ==
  LET top == m.stack[Len(m.stack)]
      nb == maze_neighbors(m)
      dd == Dirs2[nb[1 + (d % Len(nb))]]
      n == <<top[1] + dd[1], top[2] + dd[2]>>
      wcell == <<top[1] + (dd[1] \div 2), top[2] + (dd[2] \div 2)>>
  IN [m EXCEPT !.tiles = [@ EXCEPT ![wcell] = TILE_PELLET, ![n] = TILE_PELLET],
               !.stack = Append(@, n)]

\* "else: stack.pop()"; the loop ends when the stack is empty
maze_pop(m) ==
  [m EXCEPT !.stack = SubSeq(@, 1, Len(@) - 1),
            !.phase = IF Len(m.stack) = 1 THEN "links" ELSE @]

\* the list "candidates": WALL cells, in scan order, between two PELLET cells
\* of the interior on the horizontal or on the vertical axis
maze_candidates(m) ==
  LET n == (m.w - 2) * (m.h - 2)
      scan == [k \in 1..n |-> <<1 + ((k - 1) % (m.w - 2)), 1 + ((k - 1) \div (m.w - 2))>>]
      sep(c) ==
        /\ m.tiles[c] = TILE_WALL
        /\ \/ /\ 1 <= c[1] - 1 /\ c[1] + 1 <= m.w - 2
              /\ m.tiles[<<c[1] - 1, c[2]>>] = TILE_PELLET
              /\ m.tiles[<<c[1] + 1, c[2]>>] = TILE_PELLET
           \/ /\ 1 <= c[2] - 1 /\ c[2] + 1 <= m.h - 2
              /\ m.tiles[<<c[1], c[2] - 1>>] = TILE_PELLET
              /\ m.tiles[<<c[1], c[2] + 1>>] = TILE_PELLET
  IN SelectSeq(scan, sep)

\* the braiding pass: rng.shuffle is a rotation by r, opened holds the positions
\* of the shuffled list at which rng.random() < extra_link_prob
maze_links(m, r, opened) ==
  LET cands == maze_candidates(m)
      n == Len(cands)
      shuffled == [i \in 1..n |-> cands[1 + ((i - 1 + r) % n)]]
      open == {shuffled[i] : i \in opened \cap (1..n)}
  IN [m EXCEPT !.tiles = [c \in DOMAIN @ |-> IF c \in open THEN TILE_PELLET ELSE @[c]],
               !.links = Cardinality(open),
               !.phase = "tunnels"]

\* the corridor on the center row alone, registered as a tunnel
maze_tunnels_rowonly(m) ==
  LET ctr == maze_center(m.w, m.h)
  IN [m EXCEPT !.tiles = [c \in DOMAIN @ |->
                            IF InInner(m, c) /\ c[2] = ctr[2] THEN TILE_PELLET ELSE @[c]],
               !.tunnel_rows = @ \cup {ctr[2]},
               !.phase = "edges"]

\* the corridors on the center row and column, registered as tunnels
maze_tunnels(m) ==
  LET ctr == maze_center(m.w, m.h)
  IN [m EXCEPT !.tiles = [c \in DOMAIN @ |->
                            IF InInner(m, c) /\ (c[2] = ctr[2] \/ c[1] = ctr[1])
                              THEN TILE_PELLET ELSE @[c]],
               !.tunnel_rows = @ \cup {ctr[2]},
               !.tunnel_cols = @ \cup {ctr[1]},
               !.phase = "edges"]

\* the walls of the rightmost inner column and of the bottom inner row cleared
maze_edges(m) ==
  [m EXCEPT !.tiles = [c \in DOMAIN @ |->
                         IF /\ InInner(m, c) /\ @[c] = TILE_WALL
                            /\ (c[1] = m.w - 2 \/ c[2] = m.h - 2)
                           THEN TILE_PELLET ELSE @[c]],
            !.phase = "done"]

\* what the random generator returns at one step: d for rng.choice, r and
\* opened for rng.shuffle and the rng.random() calls
Draw(d, r, opened) == [d |-> d, r |-> r, opened |-> opened]
NoDraw == Draw(0, 0, {})

\* one step of generate_maze in run m with the draw dr
gen_step(m, dr) ==
  CASE m.phase = "new" -> maze_reset(m)
    [] m.phase = "dfs" -> IF maze_neighbors(m) # <<>> THEN maze_carve(m, dr.d) ELSE maze_pop(m)
    [] m.phase = "links" -> maze_links(m, dr.r, dr.opened)
    [] m.phase = "tunnels" -> maze_tunnels(m)
    [] m.phase = "edges" -> maze_edges(m)
    [] OTHER -> m

\* both runs take one step with the same draw
BothStep(dr) == maze' = [a |-> gen_step(maze.a, dr), b |-> gen_step(maze.b, dr)]

\* Board.is_walkable on the board of the record m (its w, h and tiles)
board_is_walkable(m, x, y) ==
  IF x <= 0 \/ x >= m.w - 1 \/ y <= 0 \/ y >= m.h - 1
    THEN FALSE
    ELSE m.tiles[<<x, y>>] # TILE_WALL

\* apply_move wrapping without the is_walkable test of the opposite edge cell
board_apply_move_unchecked(m, p, d) ==
  LET x == p[1]  y == p[2]  dx == d[1]  dy == d[2] IN
  IF board_is_walkable(m, x + dx, y + dy) THEN <<x + dx, y + dy>>
  ELSE IF dy = 0 /\ y \in m.tunnel_rows /\ dx < 0 /\ x = 1 THEN <<m.w - 2, y>>
  ELSE IF dy = 0 /\ y \in m.tunnel_rows /\ dx > 0 /\ x = m.w - 2 THEN <<1, y>>
  ELSE IF dx = 0 /\ x \in m.tunnel_cols /\ dy < 0 /\ y = 1 THEN <<x, m.h - 2>>
  ELSE IF dx = 0 /\ x \in m.tunnel_cols /\ dy > 0 /\ y = m.h - 2 THEN <<x, 1>>
  ELSE p

\* Board.apply_move on the board of the record m
board_apply_move(m, p, d) ==
  LET x == p[1]  y == p[2]  dx == d[1]  dy == d[2] IN
  IF board_is_walkable(m, x + dx, y + dy) THEN <<x + dx, y + dy>>
  ELSE IF dy = 0 /\ y \in m.tunnel_rows /\ dx < 0 /\ x = 1 /\ board_is_walkable(m, m.w - 2, y)
    THEN <<m.w - 2, y>>
  ELSE IF dy = 0 /\ y \in m.tunnel_rows /\ dx > 0 /\ x = m.w - 2 /\ board_is_walkable(m, 1, y)
    THEN <<1, y>>
  ELSE IF dx = 0 /\ x \in m.tunnel_cols /\ dy < 0 /\ y = 1 /\ board_is_walkable(m, x, m.h - 2)
    THEN <<x, m.h - 2>>
  ELSE IF dx = 0 /\ x \in m.tunnel_cols /\ dy > 0 /\ y = m.h - 2 /\ board_is_walkable(m, x, 1)
    THEN <<x, 1>>
  ELSE p

\* Game.__init__ with its default arguments; start_game is not called
GameNotStarted ==
  /\ tiles = InitTiles
  /\ tunnel_rows = {} /\ tunnel_cols = {}
  /\ cell_aspect = One /\ speed_scale = One /\ ghosts_count = 0 /\ freeze_on_win = FALSE
  /\ player = None /\ ghosts = <<>>
  /\ is_running = FALSE /\ is_frozen = FALSE
  /\ level_complete = FALSE /\ caught_by_ghost = FALSE
  /\ super_active = FALSE /\ super_until = 0
  /\ desired_dir = Zero /\ current_dir = Zero /\ last_axis = "none"
  /\ speed_acc = 0 /\ ghost_acc = 0 /\ score = 0 /\ state = 0 /\ now = 0
  /\ last = Hist("new", Zero, "none", FALSE, FALSE, FALSE, 0)

\* two constructions Board(w, h, generate_maze=True, seed=s) with the same w, h
\* and s, in two processes; no game is started
MazeInit ==
  /\ \E wh \in MazeDims : maze = [a |-> NewBoard(wh[1], wh[2], 1),
                                 b |-> NewBoard(wh[1], wh[2], 2)]
  /\ probe = NoProbe
  /\ GameNotStarted

MazeReset ==
  /\ maze.a.phase = "new"
  /\ BothStep(NoDraw)
  /\ UNCHANGED <<gamevars, probe>>

MazeCarve ==
  /\ maze.a.phase = "dfs" /\ maze_neighbors(maze.a) # <<>>
  /\ \E d \in 0..3 : BothStep(Draw(d, 0, {}))
  /\ UNCHANGED <<gamevars, probe>>

MazePop ==
  /\ maze.a.phase = "dfs" /\ maze_neighbors(maze.a) = <<>>
  /\ BothStep(NoDraw)
  /\ UNCHANGED <<gamevars, probe>>

MazeLinks ==
  /\ maze.a.phase = "links"
  /\ \E r \in {0, 1} : \E opened \in SUBSET (1..Len(maze_candidates(maze.a))) :
       BothStep(Draw(0, r, opened))
  /\ UNCHANGED <<gamevars, probe>>

MazeTunnels ==
  /\ maze.a.phase = "tunnels"
  /\ BothStep(NoDraw)
  /\ UNCHANGED <<gamevars, probe>>

MazeEdges ==
  /\ maze.a.phase = "edges"
  /\ BothStep(NoDraw)
  /\ UNCHANGED <<gamevars, probe>>

MazeNext ==
  \/ MazeReset
  \/ MazeCarve
  \/ MazePop
  \/ MazeLinks
  \/ MazeTunnels
  \/ MazeEdges

MazeSpec == MazeInit /\ [][MazeNext]_vars


\* ------------------------------------------------ Board's methods alone
\* the dimensions of the boards the methods are called on
BoardDims == {<<3, 3>>, <<3, 4>>, <<4, 3>>, <<4, 4>>, <<5, 3>>}

\* Board.can_move on the board b
board_can_move(b, p, d) ==
  LET x == p[1]  y == p[2]  dx == d[1]  dy == d[2] IN
  \/ board_is_walkable(b, x + dx, y + dy)
  \/ /\ dy = 0
     /\ y \in b.tunnel_rows
     /\ \/ dx < 0 /\ x = 1 /\ board_is_walkable(b, b.w - 2, y)
        \/ dx > 0 /\ x = b.w - 2 /\ board_is_walkable(b, 1, y)
  \/ /\ dx = 0
     /\ x \in b.tunnel_cols
     /\ \/ dy < 0 /\ y = 1 /\ board_is_walkable(b, x, b.h - 2)
        \/ dy > 0 /\ y = b.h - 2 /\ board_is_walkable(b, x, 1)

\* a Board(w, h) whose inner tiles were set with set_empty / set_wall /
\* set_pellet / set_power to inner and whose tunnel rows and columns are tr, tc;
\* op, arg and res record the last call, its arguments and its return value, can
\* is what can_move returns for the arguments of an apply_move call
ProbeBoard(w, h, inner, tr, tc) ==
  [w |-> w, h |-> h,
   tiles |-> [c \in (0..(w - 1)) \X (0..(h - 1)) |->
                IF c \in DOMAIN inner THEN inner[c] ELSE TILE_EMPTY],
   tunnel_rows |-> tr, tunnel_cols |-> tc,
   op |-> "new", arg |-> <<>>, res |-> <<>>, can |-> FALSE]

BoardInit ==
  /\ \E wh \in BoardDims :
       \E inner \in [(1..(wh[1] - 2)) \X (1..(wh[2] - 2)) ->
                       {TILE_EMPTY, TILE_WALL, TILE_PELLET, TILE_POWER}] :
         \E tr \in SUBSET (1..(wh[2] - 2)) : \E tc \in SUBSET (1..(wh[1] - 2)) :
           probe = ProbeBoard(wh[1], wh[2], inner, tr, tc)
  /\ maze = NoMaze
  /\ GameNotStarted

\* board.apply_move(x, y, dx, dy) and board.can_move(x, y, dx, dy) for an inner
\* cell and a unit direction
CallApplyMove ==
  /\ probe.op = "new"
  /\ \E p \in (1..(probe.w - 2)) \X (1..(probe.h - 2)) : \E d \in DirSet :
       probe' = [probe EXCEPT !.op = "apply_move", !.arg = <<p, d>>,
                              !.res = board_apply_move(probe, p, d),
                              !.can = board_can_move(probe, p, d)]
  /\ UNCHANGED <<gamevars, maze>>

\* board.consume_pellet(x, y) on an inner cell of a fresh board, or once more
\* on the cell of the previous call
CallConsumePellet ==
  /\ \E p \in (1..(probe.w - 2)) \X (1..(probe.h - 2)) :
       /\ \/ probe.op = "new"
          \/ probe.op = "consume_pellet" /\ probe.arg = <<p>>
       /\ probe' = [probe EXCEPT !.op = IF probe.op = "new" THEN "consume_pellet"
                                        ELSE "consume_pellet_again",
                                 !.arg = <<p>>,
                                 !.res = consume_points(probe.tiles, p),
                                 !.tiles = consume_tiles(probe.tiles, p)]
  /\ UNCHANGED <<gamevars, maze>>

BoardNext ==
  \/ CallApplyMove
  \/ CallConsumePellet

BoardSpec == BoardInit /\ [][BoardNext]_vars


\* ------------------------------------------------ _update_ghosts alone
\* the cells given to set_wall before a ghost pass taken alone: none, one or two
WallSets == {{}} \cup {{a, b} : a \in Interior, b \in Interior}

\* the inner cells that are not walls
OpenCells(t) == {c \in Interior : t[c] # TILE_WALL}

\* the facing directions a ghost standing on pos can have: the direction of a
\* step that ends on pos (set_direction next to set_position in _update_ghosts),
\* or what _init_ghost_dir sets for some position of the player
GhostDirs(t, pos) ==
  {d \in DirSet : \E q \in OpenCells(t) :
                    q # pos /\ can_move(t, q, d) /\ apply_move(t, q, d) = pos}
    \cup {init_ghost_dir(t, pos, c) : c \in OpenCells(t)}

\* a run in progress on a board prepared with set_wall: the player and one ghost
\* on open cells, pellets on the other open cells, in CHASE or FRIGHTENED mode
GhostInit ==
  /\ \E W \in WallSets :
       \E pp \in Interior \ W : \E gp \in Interior \ W :
         /\ tiles = EditedTiles(W, Interior \ (W \cup {pp}), {})
         /\ player = pp
         /\ \E tc \in TunnelConfigs : tunnel_rows = tc[1] /\ tunnel_cols = tc[2]
         /\ \E d \in GhostDirs(tiles, gp) : ghosts = <<Ghost(gp, d)>>
  /\ super_active \in BOOLEAN
  /\ super_until = SuperDuration
  /\ cell_aspect = One /\ speed_scale = One /\ ghosts_count = 1 /\ freeze_on_win = FALSE
  /\ is_running = TRUE /\ is_frozen = FALSE
  /\ level_complete = FALSE /\ caught_by_ghost = FALSE
  /\ desired_dir = Zero /\ current_dir = Zero /\ last_axis = "none"
  /\ speed_acc = 0 /\ ghost_acc = 0 /\ score = 0 /\ state = 0 /\ now = 0
  /\ last = Hist("mid", Zero, "none", FALSE, FALSE, FALSE, 0)
  /\ maze = NoMaze
  /\ probe = NoProbe

\* one call of Game._update_ghosts; the history record keeps, as dir, the facing
\* direction the ghost had when the pass began
GhostPass ==
  /\ last.op = "mid"
  /\ \E po \in update_ghosts(tiles, ghosts, 1, <<>>, player, super_active) :
       /\ ghosts' = po.ghosts
       /\ caught_by_ghost' = (caught_by_ghost \/ po.caught)
       /\ is_frozen' = (is_frozen \/ po.caught)
       /\ last' = [Hist("pass", ghosts[1].dir, "none", TRUE, FALSE, FALSE, 0)
                     EXCEPT !.eaten = Len(ghosts) - Len(po.ghosts),
                            !.was_super = super_active,
                            !.was_until = super_until]
  /\ UNCHANGED <<tiles, player, is_running, level_complete, super_active, super_until,
                 desired_dir, current_dir, last_axis, speed_acc, ghost_acc, score,
                 state, now>>
  /\ UNCHANGED <<cfgvars, auxvars>>

GhostNext == GhostPass

GhostSpec == GhostInit /\ [][GhostNext]_vars


\* ------------------------------------------------ runs at other speeds
\* Game(speed_scale=...): 0.5 (the default of main.py) and 1.0
PaceSpeeds == {500, 1000}

\* a board on which the first ghost, spawned in the corner (1, 1), is walled in
\* by set_wall on its two neighbours
PaceTiles == EditedTiles({<<2, 1>>, <<1, 2>>}, {<<1, Height - 2>>, <<Width - 2, 1>>}, {})

\* Game(speed_scale=s, cell_aspect=a, ghosts_count=n) on that board or on the
\* board as constructed
PaceInit ==
  /\ tiles \in {PaceTiles, InitTiles}
  /\ tunnel_rows = {} /\ tunnel_cols = {}
  /\ cell_aspect \in CellAspects
  /\ speed_scale \in PaceSpeeds
  /\ ghosts_count \in {1, 2}
  /\ freeze_on_win \in BOOLEAN
  /\ player = None /\ ghosts = <<>>
  /\ is_running = FALSE /\ is_frozen = FALSE
  /\ level_complete = FALSE /\ caught_by_ghost = FALSE
  /\ super_active = FALSE /\ super_until = 0
  /\ desired_dir = Zero /\ current_dir = Zero /\ last_axis = "none"
  /\ speed_acc = 0 /\ ghost_acc = 0 /\ score = 0 /\ state = 0 /\ now = 0
  /\ last = Hist("new", Zero, "none", FALSE, FALSE, FALSE, 0)
  /\ maze = NoMaze
  /\ probe = NoProbe

PaceSpec == PaceInit /\ [][Next]_vars


\* ------------------------------------------------ more ghosts than cells
\* a board as constructed on which set_wall was called on every inner cell off
\* the center row: a corridor of pellets
CrowdTiles ==
  EditedTiles({c \in Interior : c[2] # cy}, {c \in Interior : c[2] = cy}, {})

\* Game(ghosts_count=n) on that board, n the number of cells of the corridor or
\* one less
CrowdInit ==
  /\ tiles = CrowdTiles
  /\ tunnel_rows = {} /\ tunnel_cols = {}
  /\ cell_aspect \in CellAspects
  /\ speed_scale \in SpeedScales
  /\ ghosts_count \in {Width - 3, Width - 2}
  /\ freeze_on_win \in BOOLEAN
  /\ player = None /\ ghosts = <<>>
  /\ is_running = FALSE /\ is_frozen = FALSE
  /\ level_complete = FALSE /\ caught_by_ghost = FALSE
  /\ super_active = FALSE /\ super_until = 0
  /\ desired_dir = Zero /\ current_dir = Zero /\ last_axis = "none"
  /\ speed_acc = 0 /\ ghost_acc = 0 /\ score = 0 /\ state = 0 /\ now = 0
  /\ last = Hist("new", Zero, "none", FALSE, FALSE, FALSE, 0)
  /\ maze = NoMaze
  /\ probe = NoProbe

CrowdSpec == CrowdInit /\ [][Next]_vars


\* ------------------------------------------------ runs that are never quit
\* two boards: one wall, one pellet and two power pellets, right of and above
\* the center; and one wall, one pellet and a power pellet below the center
LiveTiles ==
  { EditedTiles({<<cx + 1, cy + 1>>}, {<<1, Height - 2>>}, {<<cx + 1, cy>>, <<cx, cy - 1>>}),
    EditedTiles({<<Width - 2, cy>>}, {<<cx - 1, cy + 1>>}, {<<cx, cy + 1>>}) }

\* the ticks counted in these runs
LiveTicks == MaxTicks + 2

\* Game(cell_aspect=a, ghosts_count=n, freeze_on_win=f) on one of these boards
LiveInit ==
  /\ tiles \in LiveTiles
  /\ tunnel_rows = {} /\ tunnel_cols = {}
  /\ cell_aspect \in CellAspects
  /\ speed_scale \in SpeedScales
  /\ ghosts_count \in {0, 1}
  /\ freeze_on_win \in BOOLEAN
  /\ player = None /\ ghosts = <<>>
  /\ is_running = FALSE /\ is_frozen = FALSE
  /\ level_complete = FALSE /\ caught_by_ghost = FALSE
  /\ super_active = FALSE /\ super_until = 0
  /\ desired_dir = Zero /\ current_dir = Zero /\ last_axis = "none"
  /\ speed_acc = 0 /\ ghost_acc = 0 /\ score = 0 /\ state = 0 /\ now = 0
  /\ last = Hist("new", Zero, "none", FALSE, FALSE, FALSE, 0)
  /\ maze = NoMaze
  /\ probe = NoProbe

\* a tick whose input is not None (the quit key is never pressed)
LiveTick == \E dir \in Inputs \ {None} : TickWithin(dir, LiveTicks)

LiveNext ==
  \/ StartGame
  \/ LiveTick

\* a tick can be taken: update_game returns for every input, and of the inputs
\* that are not None at least one changes the state (this is ENABLED of
\* <<LiveTick>>_vars)
CanTick == is_running /\ state < LiveTicks

\* the step is a tick (of LiveNext only LiveTick leaves op = "tick")
TickTaken == last'.op = "tick"

\* run() starts the game and calls update_game as long as is_running holds:
\* weak fairness of StartGame and of LiveTick, the latter, WF_vars(LiveTick),
\* written out with CanTick for its ENABLED
LiveSpec ==
  /\ LiveInit /\ [][LiveNext]_vars
  /\ WF_vars(StartGame)
  /\ ([]<>(~CanTick) \/ []<><<TickTaken>>_vars)


\* ------------------------------------------------ _spawn_ghosts alone
\* the dimensions of the boards start_game is called on
SpawnDims == {<<3, 3>>, <<4, 4>>, <<3, 6>>, <<6, 3>>, <<5, 5>>}

\* the values of ghosts_count
SpawnCounts == (-1)..5

\* Board.center_position on the board b
board_center(b) == <<1 + ((b.w - 2) \div 2), 1 + ((b.h - 2) \div 2)>>

\* the four corners of _spawn_ghosts, in its order
board_corners(b) == << <<1, 1>>, <<b.w - 2, 1>>, <<1, b.h - 2>>, <<b.w - 2, b.h - 2>> >>

\* the cells of "for y in range(1, height - 1): for x in range(1, width - 1)"
board_scan(b) ==
  [k \in 1..((b.w - 2) * (b.h - 2)) |->
     <<1 + ((k - 1) % (b.w - 2)), 1 + ((k - 1) \div (b.w - 2))>>]

\* Game._spawn_ghosts on the board b with ghosts_count n and the player on ppos:
\* the cells of the ghosts created
board_spawn_cells(b, n, ppos) ==
  LET corners == SelectSeq(board_corners(b), LAMBDA c : board_is_walkable(b, c[1], c[2]))
      scan == SelectSeq(board_scan(b), LAMBDA c : board_is_walkable(b, c[1], c[2]))
      cands == IF Len(corners) < n THEN corners \o scan ELSE corners
      uniq == Dedup(SelectSeq(cands, LAMBDA c : c # ppos))
  IN [i \in 1..Max(0, n) |-> IF i <= Len(uniq) THEN uniq[i] ELSE board_center(b)]

\* a Board(w, h) whose inner cells were left as pellets or set with set_wall
SpawnInit ==
  /\ \E wh \in SpawnDims :
       \E inner \in [(1..(wh[1] - 2)) \X (1..(wh[2] - 2)) -> {TILE_PELLET, TILE_WALL}] :
         probe = ProbeBoard(wh[1], wh[2], inner, {}, {})
  /\ maze = NoMaze
  /\ GameNotStarted

\* start_game of a Game(ghosts_count=n) on the board: the player is put on the
\* center, then _spawn_ghosts runs; arg is n and the player's cell, res the cells
\* of self.ghosts
CallSpawnGhosts ==
  /\ probe.op = "new"
  /\ \E n \in SpawnCounts :
       probe' = [probe EXCEPT !.op = "spawn_ghosts",
                              !.arg = <<n, board_center(probe)>>,
                              !.res = board_spawn_cells(probe, n, board_center(probe))]
  /\ UNCHANGED <<gamevars, maze>>

SpawnNext == CallSpawnGhosts

SpawnSpec == SpawnInit /\ [][SpawnNext]_vars


\* ------------------------------------------------ _place_power_pellets
\* the count start_game passes to _place_power_pellets
PowerCount == 6

\* the body of "for dx, dy in ((1, 0), (-1, 0), (0, 1), (0, -1))" of
\* nearest_pellet from its i-th direction: the queue and the visited set after it
RECURSIVE bfs_expand(_, _, _, _, _)
bfs_expand(m, c, i, q, vis) ==
  IF i > 4 THEN [q |-> q, vis |-> vis]
  ELSE LET n == board_apply_move(m, c, Dirs[i])
       IN IF n # c /\ n \notin vis
            THEN bfs_expand(m, c, i + 1, Append(q, n), vis \cup {n})
            ELSE bfs_expand(m, c, i + 1, q, vis)

\* the loop "while q" of nearest_pellet: the first PELLET cell popped, or None
RECURSIVE nearest_pellet_bfs(_, _, _)
nearest_pellet_bfs(m, q, vis) ==
  IF q = <<>> THEN None
  ELSE LET c == Head(q)
       IN IF InInner(m, c) /\ m.tiles[c] = TILE_PELLET THEN c
          ELSE LET e == bfs_expand(m, c, 1, Tail(q), vis)
               IN nearest_pellet_bfs(m, e.q, e.vis)

\* nearest_pellet(seed) on the board m
nearest_pellet(m, seed) == nearest_pellet_bfs(m, <<seed>>, {seed})

\* the list seeds without the player's cell
power_seeds(m, ppos) ==
  LET cy0 == maze_center(m.w, m.h)[2]
  IN SelectSeq(<< <<2, 2>>, <<m.w - 3, 2>>, <<2, m.h - 3>>, <<m.w - 3, m.h - 3>>,
                  <<m.w \div 4, cy0>>, <<(3 * m.w) \div 4, cy0>> >>,
               LAMBDA c : c # ppos)

\* the loop "for s in seeds" from the i-th seed: the board and the set placed
RECURSIVE place_seeds(_, _, _, _, _)
place_seeds(m, seeds, i, placed, count) ==
  IF i > Len(seeds) \/ Cardinality(placed) >= count THEN [m |-> m, placed |-> placed]
  ELSE LET tgt == nearest_pellet(m, seeds[i])
       IN IF tgt # None /\ tgt \notin placed
            THEN place_seeds([m EXCEPT !.tiles[tgt] = TILE_POWER], seeds, i + 1,
                             placed \cup {tgt}, count)
            ELSE place_seeds(m, seeds, i + 1, placed, count)

\* _place_power_pellets without "Fallback: random pellets if not enough placed"
place_power_pellets_nofallback(m, count, ppos) ==
  IF Max(0, count) = 0 THEN {m}
  ELSE {place_seeds(m, power_seeds(m, ppos), 1, {}, Max(0, count)).m}

\* Game._place_power_pellets(count) on the board m with the player on ppos: the
\* set of boards it can leave (random.shuffle picks the cells of the fallback)
place_power_pellets(m, count, ppos) ==
  IF Max(0, count) = 0 THEN {m}
  ELSE LET s == place_seeds(m, power_seeds(m, ppos), 1, {}, Max(0, count))
           remaining == Max(0, count) - Cardinality(s.placed)
           cells == {c \in DOMAIN s.m.tiles :
                       InInner(m, c) /\ s.m.tiles[c] = TILE_PELLET /\ c \notin s.placed}
       IN IF remaining > 0
            THEN {[s.m EXCEPT !.tiles = [c \in DOMAIN @ |->
                                          IF c \in S THEN TILE_POWER ELSE @[c]]] :
                    S \in {T \in SUBSET cells :
                             Cardinality(T) = Min(remaining, Cardinality(cells))}}
            ELSE {s.m}

\* a Board(w, h, generate_maze=True) about to be generated, or a Board(w, h)
\* without a maze (phase "plain"); no game is started yet
PowerInit ==
  /\ \E wh \in MazeDims : \E ph \in {"new", "plain"} :
       maze = [a |-> [NewBoard(wh[1], wh[2], 1) EXCEPT !.phase = ph],
               b |-> [NewBoard(wh[1], wh[2], 2) EXCEPT !.phase = ph]]
  /\ probe = NoProbe
  /\ GameNotStarted

\* start_game on the board of the first process: the player is put on the
\* center and, "if getattr(self.board, 'generated_maze', False)", the power
\* pellets are placed
StartOnBoard ==
  /\ maze.a.phase \in {"done", "plain"}
  /\ \E r \in (IF maze.a.phase = "done"
                 THEN place_power_pellets(maze.a, PowerCount,
                                          maze_center(maze.a.w, maze.a.h))
                 ELSE {maze.a}) :
       maze' = [maze EXCEPT !.a = [r EXCEPT !.phase = "started"]]
  /\ UNCHANGED <<gamevars, probe>>

PowerNext ==
  \/ MazeNext
  \/ StartOnBoard

PowerSpec == PowerInit /\ [][PowerNext]_vars


\* ================================================================ claims
IsTick == last.op = "tick"
GhostOn(gs, p) == \E i \in 1..Len(gs) : gs[i].pos = p
NoPelletLeft(t) == \A c \in Interior : t[c] \notin {TILE_PELLET, TILE_POWER}
OnePelletBoard(t) ==
  /\ Cardinality({c \in Interior : t[c] = TILE_PELLET}) = 1
  /\ \A c \in Interior : t[c] # TILE_POWER
Neighbour(p, d) == <<p[1] + d[1], p[2] + d[2]>>

\* C1: in CHASE mode, a tick whose collision check (after the ghost pass or after
\* the player's step) finds a ghost on the player's cell ends CAUGHT and frozen
\* with is_running still true; a caught simulation is frozen and keeps running
\* until a tick is given the terminate sentinel.
C1_CaughtInChase ==
  [][ /\ ( /\ IsTick' /\ ~is_frozen /\ (last'.pass \/ last'.moved)
           /\ ~super_active' /\ GhostOn(ghosts', player') )
         => (caught_by_ghost' /\ is_frozen' /\ is_running')
      /\ (caught_by_ghost /\ is_running)
         => (is_frozen /\ (is_running' <=> last'.dir # None)) ]_vars

\* C1 witness: the player stepped onto a ghost's cell in CHASE mode and was caught
C1_Witness ==
  /\ IsTick /\ last.exit = "caught_move" /\ last.stepped
  /\ caught_by_ghost /\ is_frozen /\ is_running /\ ~super_active
  /\ GhostOn(ghosts, player)

\* reachability of the other collision check of C1: caught by the ghost pass
C1_WitnessPass ==
  /\ IsTick /\ last.exit = "caught_pass"
  /\ caught_by_ghost /\ is_frozen /\ is_running /\ GhostOn(ghosts, player)

\* C2: in a tick that ran a collision check and ends in FRIGHTENED mode, no ghost
\* is left on the player's cell, the player is not caught, the simulation is frozen
\* only by a win, and (no ghost pass in the tick) the ghost list is the old list
\* without the ghosts on the player's new cell.
C2_EatenWhenFrightened ==
  [][ ( IsTick' /\ ~is_frozen /\ (last'.pass \/ last'.moved) /\ super_active' )
        => /\ ~GhostOn(ghosts', player')
           /\ ~caught_by_ghost'
           /\ (is_frozen' => level_complete')
           /\ ~last'.pass =>
                LET pp == player' IN ghosts' = SelectSeq(ghosts, LAMBDA g : g.pos # pp) ]_vars

\* C2 witness: the player stepped onto a POWER_PELLET cell a ghost stood on; the
\* ghost was eaten in that tick
C2_Witness ==
  /\ IsTick /\ last.stepped /\ ~last.pass /\ last.points = 50 /\ ~last.was_super
  /\ last.eaten >= 1 /\ super_active /\ ~caught_by_ghost

\* C3: a step onto a POWER_PELLET cell adds 50, empties that cell and no other,
\* sets FRIGHTENED and sets super_until to the clock plus 10, whatever the
\* previous deadline was.
C3_PowerPellet ==
  [][ ( IsTick' /\ last'.stepped /\ tiles[player'] = TILE_POWER )
        => /\ score' = score + 50
           /\ tiles' = [tiles EXCEPT ![player'] = TILE_EMPTY]
           /\ super_active'
           /\ super_until' = now' + 10 ]_vars

\* C3 witness: a second power pellet eaten while the earlier window was still
\* open, at a later time than the first
C3_Witness ==
  /\ IsTick /\ last.stepped /\ last.points = 50
  /\ last.was_super /\ last.was_until > now /\ last.was_until < now + 10
  /\ super_active /\ super_until = now + 10

\* C4: a tick that reaches the win check marks the level complete exactly when no
\* PELLET/POWER_PELLET tile is left or the ghost list is empty; then it stops
\* (freeze_on_win false) or freezes with is_running true (freeze_on_win true),
\* and a frozen won simulation runs until the terminate sentinel.
C4_WinCheck ==
  [][ /\ ( IsTick' /\ last'.exit \in {"end", "won_freeze"} )
         => /\ level_complete' <=> (NoPelletLeft(tiles') \/ ghosts' = <<>>)
            /\ (level_complete' /\ ~freeze_on_win) => (~is_running' /\ ~is_frozen')
            /\ (level_complete' /\ freeze_on_win) => (is_frozen' /\ is_running')
      /\ (level_complete /\ is_frozen /\ is_running)
         => (is_running' <=> last'.dir # None) ]_vars

\* C4 witness: won by eating the last pellet with a ghost alive, frozen
C4_Witness ==
  /\ level_complete /\ is_frozen /\ is_running /\ freeze_on_win
  /\ NoPelletLeft(tiles) /\ ghosts # <<>> /\ last.exit = "won_freeze"

C6_Original ==
  [][ ( IsTick' /\ last'.dir = None )
        => /\ ~is_running'
           /\ player' = player /\ score' = score /\ desired_dir' = desired_dir ]_vars

\* C6 amended: a tick given the terminate sentinel ends with is_running false
\* unless it began unfrozen and its ghost pass caught the player (it then ends
\* frozen and still running); position, score and desired direction are unchanged.
C6_Amended ==
  [][ ( IsTick' /\ last'.dir = None )
        => /\ is_running' <=> (~is_frozen /\ last'.pass /\ caught_by_ghost' /\ is_frozen')
           /\ player' = player /\ score' = score /\ desired_dir' = desired_dir ]_vars

\* C6 witness: a frozen simulation was stopped by the terminate sentinel
C6_Witness ==
  /\ IsTick /\ last.dir = None /\ last.exit = "frozen" /\ ~is_running /\ is_frozen

\* C7: a tick that begins frozen changes nothing but is_running, which a
\* terminate sentinel sets to false.
C7_FrozenNoop ==
  [][ ( is_frozen /\ IsTick' )
        => /\ UNCHANGED <<tiles, tunnel_rows, tunnel_cols, player, ghosts, is_frozen,
                          level_complete, caught_by_ghost, super_active, super_until,
                          desired_dir, current_dir, last_axis, speed_acc, ghost_acc,
                          score, state>>
           /\ is_running' <=> (is_running /\ last'.dir # None) ]_vars

\* C7 witness: a frozen tick without quit, in a state where a ghost pass was due
C7_Witness ==
  /\ IsTick /\ last.exit = "frozen" /\ last.dir # None /\ is_frozen /\ is_running
  /\ ghosts # <<>> /\ ghost_acc + ghost_speed_scale >= One

\* C8 as claimed: a tick requesting a direction whose adjacent cell is a WALL
\* leaves the player's position, the score and the tiles unchanged.
C8_Original ==
  [][ ( /\ IsTick' /\ last'.dir \in DirSet
        /\ tiles[Neighbour(player, last'.dir)] = TILE_WALL )
        => (player' = player /\ score' = score /\ tiles' = tiles) ]_vars

\* C8 amended: the same, provided the committed direction is the zero vector or
\* is itself illegal from the player's cell.
C8_Amended ==
  [][ ( /\ IsTick' /\ last'.dir \in DirSet
        /\ tiles[Neighbour(player, last'.dir)] = TILE_WALL
        /\ (current_dir = Zero \/ ~can_move(tiles, player, current_dir)) )
        => (player' = player /\ score' = score /\ tiles' = tiles) ]_vars

\* C8 witness: an unfrozen tick that reached the step with a request into a WALL
C8_Witness ==
  /\ IsTick /\ last.dir \in DirSet /\ last.exit = "end" /\ ~last.stepped
  /\ tiles[Neighbour(player, last.dir)] = TILE_WALL /\ desired_dir = last.dir

\* C9: off the interior edge of a row (column), a move wraps to the opposite
\* interior edge exactly when the row (column) is a tunnel and the opposite cell
\* is not a WALL; otherwise the actor stays.
C9_Wrap ==
  /\ \A r \in 1..(Height - 2) :
       /\ apply_move(tiles, <<1, r>>, <<-1, 0>>) =
            IF r \in tunnel_rows /\ tiles[<<Width - 2, r>>] # TILE_WALL
              THEN <<Width - 2, r>> ELSE <<1, r>>
       /\ apply_move(tiles, <<Width - 2, r>>, <<1, 0>>) =
            IF r \in tunnel_rows /\ tiles[<<1, r>>] # TILE_WALL
              THEN <<1, r>> ELSE <<Width - 2, r>>
  /\ \A c \in 1..(Width - 2) :
       /\ apply_move(tiles, <<c, 1>>, <<0, -1>>) =
            IF c \in tunnel_cols /\ tiles[<<c, Height - 2>>] # TILE_WALL
              THEN <<c, Height - 2>> ELSE <<c, 1>>
       /\ apply_move(tiles, <<c, Height - 2>>, <<0, 1>>) =
            IF c \in tunnel_cols /\ tiles[<<c, 1>>] # TILE_WALL
              THEN <<c, 1>> ELSE <<c, Height - 2>>

\* C9 witness: the player left the tunnel row over its left end and stands on
\* the right interior edge
C9_Witness ==
  /\ IsTick /\ last.stepped /\ current_dir = <<-1, 0>>
  /\ player = <<Width - 2, cy>> /\ cy \in tunnel_rows

OnOpenCell(p) ==
  /\ 1 <= p[1] /\ p[1] <= Width - 2
  /\ 1 <= p[2] /\ p[2] <= Height - 2
  /\ tiles[p] # TILE_WALL

\* C10: once started, the player and every live ghost stand on an interior cell
\* that is not a WALL.
C10_ActorsInBounds ==
  last.op # "new" =>
    /\ OnOpenCell(player)
    /\ \A i \in 1..Len(ghosts) : OnOpenCell(ghosts[i].pos)

\* C10 witness: a tick in which the ghosts and the player moved, the player
\* being stopped by the border on its next cell
C10_Witness ==
  /\ IsTick /\ last.pass /\ last.stepped /\ ghosts # <<>>
  /\ player[1] = Width - 2 /\ current_dir = <<1, 0>>

\* the tick went through the player's part of update_game: it began unfrozen, its
\* ghost pass (if any) did not catch the player and the input was not terminate
ReachedPlayer(h) == h.exit \in {"paced", "end", "won_freeze", "caught_move"}
ReachedStep(h) == h.exit \in {"end", "won_freeze", "caught_move"}
Up == <<0, -1>>
Right == <<1, 0>>
\* the state after the first tick of a run, which requested right, on a board
\* where up from the center is a WALL, the right neighbour is open and up from
\* the right neighbour is open, with speed_scale 1 and cell_aspect 1
AfterRightOnT ==
  /\ IsTick /\ last.dir = Right
  /\ \/ state = 1 /\ last.exit \in {"end", "caught_move"}
     \/ state = 0 /\ last.exit = "won_freeze"
  /\ speed_scale = One /\ cell_aspect = One
  /\ tiles[Neighbour(center_position, Up)] = TILE_WALL
  /\ is_walkable(tiles, cx + 1, cy)
  /\ is_walkable(tiles, cx + 1, cy - 1)

\* the general part of C11: in a tick that goes through the player's part of
\* update_game, a buffered direction that is illegal from the player's cell stays
\* buffered (no new request) and the committed direction is kept and stepped in;
\* a buffered direction that is legal when pacing permits a step is committed
\* and stepped in within that tick
C11_AutoTurn ==
  /\ ( /\ IsTick' /\ ReachedPlayer(last') /\ last'.dir = Zero
       /\ desired_dir # Zero /\ ~can_move(tiles, player, desired_dir) )
       => /\ desired_dir' = desired_dir /\ current_dir' = current_dir
          /\ (ReachedStep(last') /\ current_dir # Zero /\ can_move(tiles, player, current_dir))
               => player' = apply_move(tiles, player, current_dir)
  /\ ( /\ IsTick' /\ ReachedStep(last')
       /\ desired_dir' # Zero /\ can_move(tiles, player, desired_dir') )
       => /\ current_dir' = desired_dir' /\ last'.stepped
          /\ player' = apply_move(tiles, player, desired_dir') /\ player' # player

\* C11 as claimed: the buffered direction is kept while illegal and is committed
\* and stepped in at the first tick in which it is legal and pacing permits a
\* step; requesting right and, on the next tick, up on the T leaves the player
\* after two ticks at the up-neighbour of the right-neighbour.
C11_Original ==
  [][ /\ C11_AutoTurn
      /\ (AfterRightOnT /\ IsTick' /\ last'.dir = Up)
           => player' = <<cx + 1, cy - 1>> ]_vars

\* C11 amended: the same, the two-tick outcome holding when the first tick left
\* the simulation unfrozen and the ghost pass of the second tick did not catch
\* the player.
C11_Amended ==
  [][ /\ C11_AutoTurn
      /\ (AfterRightOnT /\ IsTick' /\ last'.dir = Up /\ ReachedPlayer(last'))
           => player' = <<cx + 1, cy - 1>> /\ current_dir' = Up ]_vars

\* C11 witness: right, then up, on the T with a ghost alive whose pass ran in
\* the second tick: the player stands above the right neighbour of the center
C11_Witness ==
  /\ IsTick /\ last.dir = Up /\ last.stepped /\ last.pass /\ state = 2
  /\ speed_scale = One /\ cell_aspect = One
  /\ tiles[Neighbour(center_position, Up)] = TILE_WALL
  /\ player = <<cx + 1, cy - 1>> /\ current_dir = Up /\ ghosts # <<>>

\* reachability of the deferred case of C11: with no pacing delay (cell_aspect 1)
\* and no new request, a tick committed the buffered direction and stepped in it
C11_WitnessBuffered ==
  /\ IsTick /\ last.dir = Zero /\ last.turned /\ last.stepped
  /\ cell_aspect = One /\ current_dir = desired_dir

\* the score plus the value of what is left on the board
Potential(t, sc) ==
  sc + 10 * Cardinality({c \in Interior : t[c] = TILE_PELLET})
     + 50 * Cardinality({c \in Interior : t[c] = TILE_POWER})

\* C12: the score is >= 0 and never decreases; it changes only in a tick in which
\* the tile of the player's new cell goes PELLET -> EMPTY (+10) or POWER -> EMPTY
\* (+50) and no other tile changes, so score + 10 * #PELLET + 50 * #POWER is
\* conserved by every step from construction on; a tick that removes a ghost
\* adds nothing beyond the pellet of that cell.
C12_Score ==
  [][ /\ score >= 0 /\ score' >= score
      /\ Potential(tiles', score') = Potential(tiles, score)
      /\ (score' # score \/ tiles' # tiles)
           => /\ IsTick' /\ last'.stepped
              /\ tiles' = [tiles EXCEPT ![player'] = TILE_EMPTY]
              /\ \/ tiles[player'] = TILE_PELLET /\ score' = score + 10
                 \/ tiles[player'] = TILE_POWER /\ score' = score + 50
      /\ (IsTick' /\ last'.eaten > 0) => score' = score + last'.points ]_vars

\* C12 witness: a ghost was eaten in a tick that ate no pellet, after a power
\* pellet had been eaten: the score is still the 50 of the power pellet
C12_Witness ==
  /\ IsTick /\ last.eaten >= 1 /\ last.points = 0 /\ score = 50
  /\ count_pellets(tiles) > 0

\* the cells reachable from the cells of S on the board of run m by walkable
\* steps and tunnel wraps
RECURSIVE maze_flood(_, _)
maze_flood(m, S) ==
  LET N == S \cup {board_apply_move(m, p, d) : p \in S, d \in DirSet}
  IN IF N = S THEN S ELSE maze_flood(m, N)

PelletCells(m) ==
  {c \in DOMAIN m.tiles : InInner(m, c) /\ m.tiles[c] \in {TILE_PELLET, TILE_POWER}}
WallCells(m) == {c \in DOMAIN m.tiles : InInner(m, c) /\ m.tiles[c] = TILE_WALL}

\* C13: in every maze generate_maze produces, every PELLET / POWER_PELLET cell is
\* reachable from the start cell of the carving by walkable steps and tunnel wraps.
C13_Connected ==
  maze.a.phase = "done" =>
    PelletCells(maze.a) \subseteq maze_flood(maze.a, {maze_start(maze.a.w, maze.a.h)})

\* C13 witness: a finished 7x7 maze that still has walls and in which the
\* braiding pass opened two walls
C13_Witness ==
  /\ maze.a.phase = "done" /\ maze.a.w = 7 /\ maze.a.h = 7
  /\ maze.a.links = 2 /\ WallCells(maze.a) # {}
  /\ PelletCells(maze.a) \subseteq maze_flood(maze.a, {maze_start(7, 7)})

WrapsOntoItself(b, p, d) ==
  /\ ~board_is_walkable(b, p[1] + d[1], p[2] + d[2])
  /\ board_can_move(b, p, d)
  /\ \/ d[2] = 0 /\ b.w = 3
     \/ d[1] = 0 /\ b.h = 3

\* what C15 says of every result but the case of the unchanged origin: a result
\* other than the origin is a walkable inner cell, the adjacent cell or the
\* opposite edge cell of the row or column
C15_Destination(b, p, d, q) ==
  q # p =>
    /\ board_is_walkable(b, q[1], q[2])
    /\ \/ q = <<p[1] + d[1], p[2] + d[2]>>
       \/ d[2] = 0 /\ q[2] = p[2] /\ {p[1], q[1]} = {1, b.w - 2}
       \/ d[1] = 0 /\ q[1] = p[1] /\ {p[2], q[2]} = {1, b.h - 2}

\* C15 as claimed: apply_move returns the unchanged origin exactly when can_move
\* is false, and otherwise a walkable inner cell different from the origin.
C15_Original ==
  probe.op = "apply_move" =>
    LET p == probe.arg[1]  d == probe.arg[2]  q == probe.res IN
    /\ (q = p) <=> ~probe.can
    /\ C15_Destination(probe, p, d, q)

\* C15 amended: apply_move returns the unchanged origin exactly when can_move is
\* false or the move wraps on a row (column) of a board whose interior is one
\* cell wide (high), and otherwise a walkable inner cell different from the
\* origin: the adjacent cell or the opposite edge cell.
C15_Amended ==
  probe.op = "apply_move" =>
    LET p == probe.arg[1]  d == probe.arg[2]  q == probe.res IN
    /\ (q = p) <=> (~probe.can \/ WrapsOntoItself(probe, p, d))
    /\ C15_Destination(probe, p, d, q)

\* C15 witness: a wrap to the opposite edge of a tunnel row from a cell whose
\* other neighbour on the row is a WALL
C15_Witness ==
  /\ probe.op = "apply_move" /\ probe.can /\ probe.w = 5
  /\ probe.arg = << <<3, 1>>, <<1, 0>> >> /\ probe.res = <<1, 1>>
  /\ probe.tiles[<<2, 1>>] = TILE_WALL

\* reachability of the other cases of C15: a wrap refused because the opposite
\* edge cell is a WALL
C15_WitnessBlocked ==
  /\ probe.op = "apply_move" /\ ~probe.can /\ probe.w = 4 /\ probe.h = 4
  /\ probe.arg = << <<1, 2>>, <<-1, 0>> >> /\ probe.res = <<1, 2>>
  /\ 2 \in probe.tunnel_rows /\ probe.tiles[<<2, 2>>] = TILE_WALL

\* C16: consume_pellet returns 10 on a PELLET cell and 50 on a POWER_PELLET cell
\* and leaves the cell EMPTY, returns 0 on an EMPTY or WALL cell and leaves it;
\* no other cell changes, and a second call on the same cell returns 0 and
\* changes nothing.
C16_ConsumePellet ==
  [][ /\ (probe'.op = "consume_pellet" /\ probe.op = "new") =>
           LET p == probe'.arg[1]  t == probe.tiles  u == probe'.tiles IN
           /\ t[p] = TILE_PELLET => (probe'.res = 10 /\ u[p] = TILE_EMPTY)
           /\ t[p] = TILE_POWER => (probe'.res = 50 /\ u[p] = TILE_EMPTY)
           /\ t[p] \in {TILE_EMPTY, TILE_WALL} => (probe'.res = 0 /\ u[p] = t[p])
           /\ \A c \in DOMAIN t : c # p => u[c] = t[c]
      /\ (probe'.op = "consume_pellet_again" /\ probe.op = "consume_pellet") =>
           /\ probe'.arg = probe.arg
           /\ probe'.res = 0
           /\ probe'.tiles = probe.tiles ]_vars

\* C16 witness: the second call on a cell that held a power pellet, beside a
\* pellet that is still there
C16_Witness ==
  /\ probe.op = "consume_pellet_again" /\ probe.res = 0
  /\ probe.w = 4 /\ probe.h = 4 /\ probe.arg = << <<1, 1>> >>
  /\ probe.tiles[<<1, 1>>] = TILE_EMPTY /\ probe.tiles[<<2, 1>>] = TILE_PELLET
  /\ probe.tiles[<<1, 2>>] = TILE_POWER /\ probe.tiles[<<2, 2>>] = TILE_WALL

\* C17: after start_game, is_running is true, the player stands on the cell
\* (1 + inner width div 2, 1 + inner height div 2), both pacing accumulators
\* are 0 and no axis is recorded as last moved.
C17_Start ==
  [][ last'.op = "start"
        => /\ is_running'
           /\ player' = <<1 + ((Width - 2) \div 2), 1 + ((Height - 2) \div 2)>>
           /\ speed_acc' = 0 /\ ghost_acc' = 0
           /\ last_axis' = "none" ]_vars

\* C17 witness: a started game with two ghosts spawned around the player
C17_Witness ==
  /\ last.op = "start" /\ is_running /\ Len(ghosts) = 2 /\ ~GhostOn(ghosts, player)
  /\ player = <<1 + ((Width - 2) \div 2), 1 + ((Height - 2) \div 2)>>
  /\ speed_acc = 0 /\ ghost_acc = 0 /\ state = 0

\* C18: in a tick that begins unfrozen, the mode expiry precedes the ghost pass
\* (a ghost left on the player's cell by a pass run in CHASE mode, expired mode
\* included, ends the tick CAUGHT); the pass and its collision check precede
\* the terminate check and the player's movement (a tick CAUGHT by the pass is
\* frozen, still running, and leaves position, score, tiles and desired
\* direction); the terminate check precedes the movement; consumption precedes
\* the post-move collision check, which precedes the win check (a tick CAUGHT
\* after the move has consumed the pellet and has not completed the level).
C18_Order ==
  [][ (IsTick' /\ ~is_frozen) =>
        LET chase == ~super_active \/ now' >= super_until IN
        /\ (last'.pass /\ chase /\ GhostOn(ghosts', player))
             => last'.exit = "caught_pass"
        /\ last'.exit = "caught_pass"
             => /\ last'.pass /\ chase /\ GhostOn(ghosts', player)
                /\ caught_by_ghost' /\ is_frozen' /\ is_running'
                /\ player' = player /\ score' = score /\ tiles' = tiles
                /\ desired_dir' = desired_dir /\ current_dir' = current_dir
                /\ level_complete' = level_complete
        /\ (last'.dir = None /\ last'.exit # "caught_pass")
             => /\ ~is_running' /\ last'.exit = "quit"
                /\ player' = player /\ score' = score /\ tiles' = tiles
        /\ last'.exit = "caught_move"
             => /\ caught_by_ghost' /\ is_frozen' /\ ~level_complete'
                /\ ~super_active' /\ GhostOn(ghosts', player')
                /\ tiles'[player'] = TILE_EMPTY
                /\ score' = score + consume_points(tiles, player')
        /\ (level_complete' /\ ~level_complete)
             => /\ last'.exit \in {"end", "won_freeze"}
                /\ ~caught_by_ghost' /\ ~GhostOn(ghosts', player') ]_vars

\* C18 witness: the ghost pass caught the player in a tick whose input asked for
\* a legal step onto a pellet, in a direction other than the buffered one
C18_Witness ==
  /\ IsTick /\ last.exit = "caught_pass" /\ last.dir \in DirSet
  /\ can_move(tiles, player, last.dir) /\ desired_dir # last.dir
  /\ tiles[apply_move(tiles, player, last.dir)] = TILE_PELLET
  /\ caught_by_ghost /\ is_frozen /\ is_running

\* the positions of the ghosts of gs
Positions(gs) == [i \in 1..Len(gs) |-> gs[i].pos]

\* the destination C19 gives a frightened ghost at p0: the legal destination
\* farthest from the target, the first in enumeration order, or p0
FleeDest(t, p0, target) ==
  FleeStep(t, p0, target, [pos |-> p0, dir |-> Zero, moved |-> FALSE]).pos

\* C19 as claimed: a ghost pass in FRIGHTENED mode moves every ghost to the legal
\* destination farthest from the player's cell (first in enumeration order), or
\* leaves it where it is when it has no legal move; the ghosts left at the end of
\* the tick are those, in order, that are not on the player's old or new cell.
C19_Original ==
  [][ ( IsTick' /\ ~is_frozen /\ last'.pass /\ super_active /\ now' < super_until )
        => LET fled == [i \in 1..Len(ghosts) |-> FleeDest(tiles, ghosts[i].pos, player)]
               pp == player
               np == player'
           IN Positions(ghosts') = SelectSeq(fled, LAMBDA c : c # pp /\ c # np) ]_vars

\* reachability of the case that refutes C19: after a pass in FRIGHTENED mode a
\* ghost that could have moved away stands one cell nearer to the player than
\* when the pass began, on the player's row or column
C19_TowardsPlayer ==
  /\ IsTick /\ last.pass /\ last.was_super /\ super_active /\ last.eaten = 0
  /\ ~last.stepped /\ Len(ghosts) = 1
  /\ Manhattan(ghosts[1].pos, player) = 1
  /\ FleeDest(tiles, Neighbour(ghosts[1].pos, <<-ghosts[1].dir[1], -ghosts[1].dir[2]>>),
              player) # ghosts[1].pos
  /\ Neighbour(ghosts[1].pos, ghosts[1].dir) = player

\* C20: a ghost pass in CHASE mode that begins with a ghost at Manhattan distance
\* 1 from the player ends the tick CAUGHT and frozen with a ghost on the player's
\* cell; the only move of such a ghost, when the loop processes it, is the step
\* onto the player's cell, which ends the pass.
C20_AdjacentCatches ==
  [][ ( /\ IsTick' /\ ~is_frozen /\ last'.pass
        /\ (~super_active \/ now' >= super_until)
        /\ \E i \in 1..Len(ghosts) : Manhattan(ghosts[i].pos, player) = 1 )
        => /\ last'.exit = "caught_pass"
           /\ caught_by_ghost' /\ is_frozen' /\ is_running'
           /\ GhostOn(ghosts', player') /\ player' = player
           /\ \A i \in 1..Len(ghosts) :
                Manhattan(ghosts[i].pos, player) = 1 =>
                  GhostMoves(tiles, ghosts[i], player, FALSE) =
                    { [pos |-> player,
                       dir |-> <<player[1] - ghosts[i].pos[1], player[2] - ghosts[i].pos[2]>>,
                       moved |-> TRUE, early |-> TRUE] } ]_vars

\* C20 witness: a pass in CHASE mode left a ghost on the player's cell and ended
\* the tick CAUGHT while another ghost was more than one cell away
C20_Witness ==
  /\ IsTick /\ last.exit = "caught_pass" /\ caught_by_ghost /\ is_frozen
  /\ ~last.was_super
  /\ \E i \in 1..Len(ghosts) :
       /\ ghosts[i].pos = player
       /\ \E j \in 1..Len(ghosts) : j # i /\ Manhattan(ghosts[j].pos, player) > 1


\* a ghost pass has just run, within a tick that began unfrozen or taken alone
PassRan == last.op = "pass" \/ (IsTick /\ last.pass)

\* the step from the unfrozen state to the next was a ghost pass in CHASE mode
\* (the mode after the expiry check of the tick)
ChasePass == PassRan' /\ ~is_frozen /\ (~super_active \/ now' >= super_until)

\* in a pass in CHASE mode no ghost leaves the list, and the loop reaches the
\* i-th ghost unless an earlier one ended the pass on the player's cell
Processed(i) == \A j \in 1..(i - 1) : ghosts'[j].pos # player

Sgn(n) == IF n > 0 THEN 1 ELSE IF n < 0 THEN -1 ELSE 0

\* the cells strictly between p and q on their common row or column
Between(p, q) ==
  {c \in AllCells :
     \/ c[2] = p[2] /\ p[2] = q[2] /\ ((p[1] < c[1] /\ c[1] < q[1]) \/ (q[1] < c[1] /\ c[1] < p[1]))
     \/ c[1] = p[1] /\ p[1] = q[1] /\ ((p[2] < c[2] /\ c[2] < q[2]) \/ (q[2] < c[2] /\ c[2] < p[2]))}

\* p and q are at least two cells apart on one row or column with no WALL between
InSight(t, p, q) ==
  /\ p[1] = q[1] \/ p[2] = q[2]
  /\ Manhattan(p, q) >= 2
  /\ \A c \in Between(p, q) : t[c] # TILE_WALL

\* C21: in a ghost pass in CHASE mode, a ghost the loop reaches that is two or
\* more cells from the player on the player's row or column, with no WALL tile
\* strictly between them, ends the pass on the neighbouring cell towards the
\* player, facing the player, one cell nearer; the step is the direct one (the
\* neighbouring cell, never the far side of a tunnel), also when the way round
\* through a tunnel is shorter.
C21_LineOfSight ==
  [][ ChasePass =>
        \A i \in 1..Len(ghosts) :
          (InSight(tiles, ghosts[i].pos, player) /\ Processed(i))
            => LET g == ghosts[i].pos
                   toward == <<Sgn(player[1] - g[1]), Sgn(player[2] - g[2])>>
               IN /\ ghosts'[i].pos = Neighbour(g, toward)
                  /\ ghosts'[i].dir = toward
                  /\ Manhattan(ghosts'[i].pos, player) = Manhattan(g, player) - 1 ]_vars

\* C21 witness: a pass in CHASE mode brought the ghost from two cells away, in
\* sight of the player, to the cell next to the player
C21_Witness ==
  /\ PassRan /\ ~last.was_super /\ ~caught_by_ghost /\ Len(ghosts) = 1
  /\ ghosts[1].dir \in DirSet
  /\ Neighbour(ghosts[1].pos, ghosts[1].dir) = player
  /\ Neighbour(ghosts[1].pos, <<-ghosts[1].dir[1], -ghosts[1].dir[2]>>) \in OpenCells(tiles)

\* the sight line is not taken through a tunnel: a ghost on the player's row,
\* behind a WALL, whose step through the tunnel would have ended on the player's
\* cell, has stepped to another cell
C21_WitnessNoWrap ==
  /\ PassRan /\ ~last.was_super /\ ~caught_by_ghost /\ Len(ghosts) = 1
  /\ player = <<Width - 2, cy>> /\ cy \in tunnel_rows
  /\ tiles[<<Width - 3, cy>>] = TILE_WALL
  /\ ghosts[1].pos = <<1, cy + 1>> /\ ghosts[1].dir = <<0, 1>>


\* the directions can_move allows from cell p
LegalDirs(t, p) == {d \in DirSet : can_move(t, p, d)}

Reverse(d) == <<-d[1], -d[2]>>

\* C22: in a ghost pass in CHASE mode, a ghost the loop reaches that is two or
\* more cells from the player and not in sight of it (not on the player's row or
\* column, or with a WALL between) takes one step in a direction can_move allows
\* and ends on the cell apply_move gives, facing that direction; the direction
\* is the reverse of the one it faced only when the reverse is its only legal
\* move; it stays only when it has no legal move.
C22_Wander ==
  [][ ChasePass =>
        \A i \in 1..Len(ghosts) :
          LET g == ghosts[i].pos
              legal == LegalDirs(tiles, g)
          IN ( /\ Manhattan(g, player) >= 2
               /\ ~InSight(tiles, g, player)
               /\ Processed(i) )
               => /\ legal = {} => ghosts'[i].pos = g
                  /\ legal # {} =>
                       \E d \in legal :
                         /\ ghosts'[i].pos = apply_move(tiles, g, d)
                         /\ ghosts'[i].pos # g
                         /\ ghosts'[i].dir = d
                         /\ d = Reverse(ghosts[i].dir) => legal = {d} ]_vars

\* the cell a ghost that faces d after a direct step came from
CameFrom(gh) == Neighbour(gh.pos, Reverse(gh.dir))

\* C22 witness: out of sight of the player and with three legal moves, one of
\* them the reverse, the ghost took a step that is not the reverse
C22_Witness ==
  /\ last.op = "pass" /\ ~last.was_super /\ Len(ghosts) = 1
  /\ ghosts[1].dir \in DirSet /\ CameFrom(ghosts[1]) \in OpenCells(tiles)
  /\ Manhattan(CameFrom(ghosts[1]), player) >= 2
  /\ ~InSight(tiles, CameFrom(ghosts[1]), player)
  /\ Cardinality(LegalDirs(tiles, CameFrom(ghosts[1]))) = 3
  /\ Reverse(last.dir) \in LegalDirs(tiles, CameFrom(ghosts[1]))
  /\ ghosts[1].dir # Reverse(last.dir)

\* C22, the dead end: the ghost faced into a dead end, out of sight of the
\* player, and has left it by the reverse, its only legal move
C22_WitnessDeadEnd ==
  /\ last.op = "pass" /\ ~last.was_super /\ Len(ghosts) = 1
  /\ ghosts[1].dir \in DirSet /\ CameFrom(ghosts[1]) \in OpenCells(tiles)
  /\ Manhattan(CameFrom(ghosts[1]), player) >= 2
  /\ ~InSight(tiles, CameFrom(ghosts[1]), player)
  /\ LegalDirs(tiles, CameFrom(ghosts[1])) = {ghosts[1].dir}
  /\ ghosts[1].dir = Reverse(last.dir)


\* C23: after a ghost pass that removed no ghost, in either mode, every ghost
\* the loop reached either stands on another cell than before and faces the
\* direction of that step (a direction can_move allowed from its old cell and
\* whose apply_move result is its new cell), or stands where it stood and faces
\* the zero vector.
C23_Facing ==
  [][ (PassRan' /\ ~is_frozen /\ Len(ghosts') = Len(ghosts)) =>
        \A i \in 1..Len(ghosts) :
          ((~super_active \/ now' >= super_until) => Processed(i))
            => LET old == ghosts[i].pos
                   new == ghosts'[i].pos
                   d == ghosts'[i].dir
               IN IF new # old
                    THEN /\ d \in DirSet
                         /\ can_move(tiles, old, d)
                         /\ apply_move(tiles, old, d) = new
                    ELSE d = Zero ]_vars

\* C23 witness: after a pass in FRIGHTENED mode the ghost faces the player from
\* the next cell: it faces the way of the step it took, along the sight line,
\* and another legal step would have taken it farther away
C23_Witness ==
  /\ last.op = "pass" /\ last.was_super /\ Len(ghosts) = 1
  /\ ghosts[1].dir \in DirSet /\ CameFrom(ghosts[1]) \in OpenCells(tiles)
  /\ Neighbour(ghosts[1].pos, ghosts[1].dir) = player
  /\ FleeDest(tiles, CameFrom(ghosts[1]), player) # ghosts[1].pos

\* C23, the ghost that cannot move: walled in, it stands where it stood and faces
\* the zero vector
C23_WitnessStayed ==
  /\ last.op = "pass" /\ Len(ghosts) = 1
  /\ LegalDirs(tiles, ghosts[1].pos) = {}
  /\ ghosts[1].pos # player /\ ghosts[1].dir = Zero


\* C24: in a tick that begins unfrozen, FRIGHTENED and with the clock at or past
\* super_until, the mode is CHASE again before the ghost pass and the collision
\* checks, whatever the input and whether or not the player steps: the pass is
\* one of the outcomes of a pass in CHASE mode, a ghost the pass leaves on the
\* player's cell catches the player, no ghost is eaten unless the tick itself
\* eats a power pellet, and the tick ends in CHASE mode unless it eats a power
\* pellet. After every tick that began unfrozen, FRIGHTENED mode implies that the
\* clock is before super_until, and super_until changes only in a tick that
\* eats a power pellet.
C24_Expiry ==
  [][ (IsTick' /\ ~is_frozen) =>
        /\ (super_active /\ now' >= super_until) =>
             /\ last'.pass =>
                  \E po \in update_ghosts(tiles, ghosts, 1, <<>>, player, FALSE) :
                    /\ Positions(po.ghosts) = Positions(ghosts') \/ last'.eaten > 0
                    /\ (po.caught \/ GhostOn(po.ghosts, player)) <=> last'.exit = "caught_pass"
             /\ (last'.pass /\ GhostOn(ghosts', player)) => last'.exit = "caught_pass"
             /\ last'.eaten > 0 => last'.points >= PowerPoints
             /\ super_active' => last'.points >= PowerPoints
        /\ super_active' => now' < super_until'
        /\ last'.points < PowerPoints => super_until' = super_until
        /\ last'.points >= PowerPoints => super_until' = now' + SuperDuration ]_vars

\* C24 witness: the deadline passed while the player was paced out: the tick
\* took no step and ended in CHASE mode
C24_Witness ==
  /\ IsTick /\ last.was_super /\ now >= last.was_until /\ last.exit = "paced"
  /\ ~super_active /\ ghosts # <<>>

\* C24, the pass of such a tick: a ghost stepped onto the idle player and caught it
C24_WitnessCaught ==
  /\ IsTick /\ last.was_super /\ now >= last.was_until /\ last.exit = "caught_pass"
  /\ last.dir = Zero /\ ~super_active /\ caught_by_ghost /\ GhostOn(ghosts, player)


\* C25: a tick that begins unfrozen and reaches the buffering step (its input is
\* not the terminate sentinel and its ghost pass did not end it) stores a
\* non-zero input as the desired direction, legal or not, and leaves the desired
\* direction as it was on a zero input; every other tick, and start_game, leave
\* it alone; so a non-zero desired direction never becomes zero again.
C25_Buffering ==
  [][ /\ (IsTick' /\ ~is_frozen /\ ReachedPlayer(last'))
           => desired_dir' = IF last'.dir # Zero THEN last'.dir ELSE desired_dir
      /\ ~(IsTick' /\ ~is_frozen /\ ReachedPlayer(last'))
           => desired_dir' = desired_dir
      /\ desired_dir # Zero => desired_dir' # Zero ]_vars

\* C25 witness: a tick buffered a direction that is blocked at the player's
\* cell, in place of another buffered direction, and the player did not step
C25_Witness ==
  /\ IsTick /\ ReachedStep(last) /\ ~last.stepped /\ last.dir \in DirSet
  /\ desired_dir = last.dir /\ ~can_move(tiles, player, last.dir)
  /\ current_dir \in DirSet /\ current_dir # last.dir

\* C25, the zero input: a tick with input (0, 0) kept the buffered direction
C25_WitnessKept ==
  /\ IsTick /\ ReachedPlayer(last) /\ last.dir = Zero /\ desired_dir \in DirSet


\* the effective axis of the tick just taken, from the state it began in and the
\* desired direction it buffered
EffectiveAxis ==
  IF desired_dir' # Zero /\ can_move(tiles, player, desired_dir')
    THEN Axis(desired_dir')
    ELSE IF current_dir # Zero THEN Axis(current_dir) ELSE "none"

\* what the tick just taken compared: the accumulator after adding speed_scale
\* and, on a switch from a horizontal last-moved axis to a vertical effective
\* axis with cell_aspect above 1.0, the credit
AccAtThreshold ==
  speed_acc + speed_scale
    + (IF EffectiveAxis = "v" /\ last_axis = "h" /\ cell_aspect > One
         THEN cell_aspect - One ELSE 0)

\* 1.0 for a horizontal axis or none, max(1.0, cell_aspect) for a vertical one
ThresholdOf(axis) == IF axis = "v" THEN Max(One, cell_aspect) ELSE One

\* a tick that got to the pacing with a vertical axis and without the credit
VerticalTravel(h) == h.exit \in PacedExits /\ h.axis = "v" /\ h.credit = 0

\* C26: in a tick that begins unfrozen the player changes cell at most once, by
\* one legal step, and only if the tick got to the pacing and the accumulator
\* then compared (old value plus speed_scale, plus the credit of C27 when it is
\* granted) has reached the threshold: 1.0 for a horizontal axis or none,
\* max(1.0, cell_aspect) for a vertical one; below the threshold the tick takes
\* no step and keeps the sum, otherwise the threshold is subtracted. With
\* speed_scale 1 and cell_aspect 1, a tick that gets to the pacing with a legal
\* committed direction (after the auto-turn) moves the player one cell. With
\* speed_scale 1 and cell_aspect 2, of two ticks in a row that get to the pacing
\* with a vertical axis and no credit, exactly one is paced out, and the other
\* steps when the committed direction is legal.
C26_Pacing ==
  [][ (IsTick' /\ ~is_frozen) =>
        LET acc == AccAtThreshold
            thr == ThresholdOf(EffectiveAxis)
        IN
        /\ player' # player =>
             /\ last'.stepped
             /\ \E d \in DirSet : can_move(tiles, player, d) /\ player' = apply_move(tiles, player, d)
        /\ last'.stepped => ReachedStep(last') /\ acc >= thr
        /\ ReachedPlayer(last') =>
             /\ last'.exit = "paced" <=> acc < thr
             /\ last'.exit = "paced" => speed_acc' = acc /\ player' = player
             /\ last'.exit # "paced" => speed_acc' = acc - thr
        /\ ~ReachedPlayer(last') => speed_acc' = speed_acc /\ player' = player
        /\ ( /\ speed_scale = One /\ cell_aspect = One /\ ReachedPlayer(last')
             /\ current_dir' # Zero /\ can_move(tiles, player, current_dir') )
             => /\ last'.stepped /\ player' # player
                /\ player' = apply_move(tiles, player, current_dir')
        /\ ( /\ speed_scale = One /\ cell_aspect = 2 * One
             /\ IsTick /\ VerticalTravel(last) /\ VerticalTravel(last') )
             => /\ (last.exit = "paced") # (last'.exit = "paced")
                /\ (last'.exit # "paced" /\ can_move(tiles, player, current_dir'))
                     => last'.stepped ]_vars

\* C26 witness: with cell_aspect 2 the player was paced out in the first tick and
\* stepped one cell up or down in the second
C26_Witness ==
  /\ IsTick /\ state = 2 /\ cell_aspect = 2 * One /\ speed_scale = One
  /\ last.stepped /\ last.axis = "v" /\ last.credit = 0 /\ speed_acc = 0
  /\ player \in {<<cx, cy - 1>>, <<cx, cy + 1>>}

\* C26, the other half of the alternation: a step along a vertical corridor was
\* followed by a tick that was paced out
C26_WitnessPaced ==
  /\ IsTick /\ state = 3 /\ cell_aspect = 2 * One /\ speed_scale = One
  /\ last.exit = "paced" /\ last.axis = "v" /\ speed_acc = One
  /\ last_axis = "v" /\ player \in {<<cx, cy - 1>>, <<cx, cy + 1>>}


\* C27 as claimed: for every speed_scale above 0 and cell_aspect above 1, between
\* two consecutive steps of the player (the tick of the second step included) the
\* credit is added to _speed_acc in at most one tick.
C27_Original == IsTick => last.credits <= 1

\* reachability of the case that refutes C27: with speed_scale 0.5 and
\* cell_aspect 2 a tick added the credit and was paced out, and the next tick
\* added it again and stepped
C27_CreditTwice ==
  /\ IsTick /\ speed_scale = 500 /\ cell_aspect = 2 * One
  /\ last.credits = 2 /\ last.credit = One /\ last.stepped /\ last_axis = "v"
  /\ speed_acc = One

\* with speed_scale at least 1.0 the tick that adds the credit always steps, and
\* the credit is added once
C27_OnceAtFullSpeed == (IsTick /\ speed_scale >= One) => last.credits <= 1


\* one step of a ghost, or none: q is p or the cell a legal move leads to from p
OneStep(t, p, q) ==
  q = p \/ \E d \in DirSet : can_move(t, p, d) /\ apply_move(t, p, d) = q

\* the cadence of the ghosts in the tick just taken (it began unfrozen): with
\* ghosts alive 0.512 x speed_scale is added to _ghost_acc, a pass runs exactly
\* when the sum has reached 1.0 and then 1.0 is subtracted, once; a pass that
\* removes no ghost moves every ghost by at most one step, moves every ghost that
\* has a legal move unless the pass ended on the player's cell before its turn,
\* and leaves the ghosts after the one that caught the player where they were;
\* the collision check that follows leaves no ghost on the player's cell unless
\* the tick ends CAUGHT there
C28_Cadence ==
  LET gss == (speed_scale * 512) \div 1000
      acc1 == IF ghosts # <<>> THEN ghost_acc + gss ELSE ghost_acc
      chase == ~super_active \/ now' >= super_until
  IN
  /\ ghost_speed_scale = gss
  /\ last'.pass <=> (ghosts # <<>> /\ acc1 >= One)
  /\ ghost_acc' = IF last'.pass THEN acc1 - One ELSE acc1
  /\ ~last'.pass => ghosts' = ghosts \/ last'.eaten > 0
  /\ (last'.pass /\ last'.eaten = 0) =>
       \A i \in 1..Len(ghosts) :
         /\ OneStep(tiles, ghosts[i].pos, ghosts'[i].pos)
         /\ (\A j \in 1..(i - 1) : ghosts'[j].pos # player)
              => (LegalDirs(tiles, ghosts[i].pos) # {} => ghosts'[i].pos # ghosts[i].pos)
         /\ (\E j \in 1..(i - 1) : ghosts'[j].pos = player) => ghosts'[i] = ghosts[i]
  /\ last'.pass =>
       /\ last'.exit = "caught_pass" => chase /\ GhostOn(ghosts', player) /\ is_frozen'
       /\ last'.exit # "caught_pass" => ~GhostOn(ghosts', player)

\* C28 as claimed: the cadence, and with speed_scale 1 no more ghost passes in
\* any run of ticks than ticks in which the pacing lets the player step: a tick
\* that runs a ghost pass and gets to the pacing of the player is not paced out.
C28_Original ==
  [][ (IsTick' /\ ~is_frozen) =>
        /\ C28_Cadence
        /\ (speed_scale = One /\ last'.pass /\ ReachedPlayer(last'))
             => last'.exit # "paced" ]_vars

\* C28 amended: the cadence, and with speed_scale 1 a tick that runs a ghost pass
\* and gets to the pacing of the player is not paced out when cell_aspect is at
\* most 1 or the effective axis is not vertical.
C28_Amended ==
  [][ (IsTick' /\ ~is_frozen) =>
        /\ C28_Cadence
        /\ ( /\ speed_scale = One /\ last'.pass /\ ReachedPlayer(last')
             /\ (cell_aspect <= One \/ EffectiveAxis # "v") )
             => last'.exit # "paced" ]_vars

\* C28 witness: the second tick ran the first ghost pass, which moved both
\* ghosts off their corners, and left 2 x 0.512 - 1.0 in the accumulator
C28_Witness ==
  /\ IsTick /\ state = 2 /\ last.pass /\ last.exit = "end" /\ speed_scale = One
  /\ ghost_acc = 2 * GhostSpeedFactor - One
  /\ Len(ghosts) = 2
  /\ \A i \in 1..2 : \A k \in 1..4 : ghosts[i].pos # Corners[k]

\* C28, the slower cadence: with speed_scale 0.5 the first pass ran in the fourth
\* tick
C28_WitnessHalfSpeed ==
  /\ IsTick /\ state = 4 /\ last.pass /\ speed_scale = 500
  /\ ghost_acc = 4 * 256 - One

\* reachability of the case that refutes C28 as claimed: with speed_scale 1 and
\* cell_aspect 2 a tick ran a ghost pass while the player was paced out
C28_PassWhilePaced ==
  /\ IsTick /\ speed_scale = One /\ cell_aspect = 2 * One
  /\ last.pass /\ last.exit = "paced" /\ last.axis = "v"


\* the ghosts after a tick as the ghosts before it with some taken out: f maps
\* the indices of gs2 into those of gs1 in increasing order, each ghost kept is on
\* its cell of before or (when the tick ran a pass) one step from it, and each
\* ghost taken out was on, or one step from, one of the cells
Survivors(f, gs1, gs2, pass, cells) ==
  /\ \A j \in 1..Len(gs2) : \A k \in 1..Len(gs2) : j < k => f[j] < f[k]
  /\ \A j \in 1..Len(gs2) :
       IF pass THEN OneStep(tiles, gs1[f[j]].pos, gs2[j].pos)
       ELSE gs2[j] = gs1[f[j]]
  /\ \A i \in 1..Len(gs1) :
       (\A j \in 1..Len(gs2) : f[j] # i) =>
          \E q \in cells : IF pass THEN OneStep(tiles, gs1[i].pos, q) ELSE gs1[i].pos = q

\* C29: in every tick the list of ghosts is the list of before with some ghosts
\* taken out and none added (so the number of ghosts never increases and a ghost
\* taken out does not come back); ghosts are taken out only in a tick that ends
\* in FRIGHTENED mode and not caught, each from the cell the player was on during
\* the pass or after its move; a tick that begins frozen leaves the list alone.
C29_NoRespawn ==
  [][ IsTick' =>
        /\ Len(ghosts') <= Len(ghosts)
        /\ \E f \in [1..Len(ghosts') -> 1..Len(ghosts)] :
             Survivors(f, ghosts, ghosts', last'.pass, {player, player'})
        /\ Len(ghosts') < Len(ghosts) =>
             /\ super_active' /\ now' < super_until'
             /\ ~caught_by_ghost' /\ ~is_frozen
             /\ ~GhostOn(ghosts', player')
        /\ is_frozen => ghosts' = ghosts ]_vars

\* C29 witness: of two ghosts one was eaten in a tick and a later tick, the mode
\* back to CHASE, still has the one ghost that was left
C29_Witness ==
  /\ IsTick /\ ghosts_count = 2 /\ Len(ghosts) = 1
  /\ last.eaten = 0 /\ ~super_active /\ score >= PowerPoints /\ state >= 3

\* C29: a tick took the first ghost of two out and kept the second
C29_WitnessEaten ==
  /\ IsTick /\ last.eaten = 1 /\ Len(ghosts) = 1 /\ super_active
  /\ ghosts[1].pos # Corners[1]


\* C30: a tick changes no tile but the one under the player after its movement,
\* and that one only from PELLET or POWER to EMPTY: WALL and EMPTY tiles stay,
\* no tile becomes WALL, PELLET or POWER, a tick in which the player made no
\* movement (whatever the ghosts did) changes no tile, and the tunnel rows and
\* columns stay as they are.
C30_TilesFrame ==
  [][ IsTick' =>
        /\ DOMAIN tiles' = DOMAIN tiles
        /\ \A c \in AllCells :
             tiles'[c] # tiles[c] =>
               /\ c = player'
               /\ last'.moved
               /\ tiles[c] \in {TILE_PELLET, TILE_POWER}
               /\ tiles'[c] = TILE_EMPTY
        /\ ~last'.moved => tiles' = tiles
        /\ tunnel_rows' = tunnel_rows
        /\ tunnel_cols' = tunnel_cols ]_vars

\* C30 witness: a tick ran a ghost pass that moved a ghost onto a pellet, and the
\* player stepped onto a pellet with another pellet on its right: the first is
\* gone and the other two are still there
C30_Witness ==
  /\ IsTick /\ last.pass /\ last.stepped /\ last.points = PelletPoints
  /\ tiles[player] = TILE_EMPTY
  /\ tiles[<<player[1] + 1, player[2]>>] = TILE_PELLET
  /\ \E i \in 1..Len(ghosts) :
       /\ tiles[ghosts[i].pos] = TILE_PELLET
       /\ \A k \in 1..4 : ghosts[i].pos # Corners[k]

\* C30: a tick ate a power pellet on a board with a tunnel row and an interior
\* wall
C30_WitnessPower ==
  /\ IsTick /\ last.stepped /\ last.points = PowerPoints
  /\ tiles[player] = TILE_EMPTY
  /\ tunnel_rows # {}
  /\ \E c \in Interior : tiles[c] = TILE_WALL


\* C31: a tick in which, in CHASE mode, the player steps onto the cell of the
\* last pellet while a ghost is on that cell empties the cell and adds its 10
\* points, ends caught and frozen and does not mark the level complete; and a
\* tick that begins caught with the level not complete does not complete it.
C31_CaughtOnLastPellet ==
  [][ IsTick' =>
        /\ ( /\ last'.stepped
             /\ count_pellets(tiles) = 1 /\ tiles[player'] = TILE_PELLET
             /\ ~super_active'
             /\ GhostOn(ghosts', player') )
             => /\ tiles'[player'] = TILE_EMPTY
                /\ count_pellets(tiles') = 0
                /\ score' = score + PelletPoints
                /\ caught_by_ghost' /\ is_frozen'
                /\ ~level_complete'
                /\ last'.exit = "caught_move"
        /\ (caught_by_ghost /\ ~level_complete) => (caught_by_ghost' /\ ~level_complete') ]_vars

\* C31 witness: the player stepped onto the last pellet and a ghost; the pellet
\* is gone and scored, the tick ended caught, and a frozen tick has followed with
\* the level still not complete
C31_Witness ==
  /\ IsTick /\ last.exit = "frozen"
  /\ count_pellets(tiles) = 0 /\ score >= PelletPoints
  /\ caught_by_ghost /\ is_frozen /\ ~level_complete
  /\ GhostOn(ghosts, player) /\ Len(ghosts) >= 1

\* C31: the tick of the catch itself
C31_WitnessTick ==
  /\ IsTick /\ last.exit = "caught_move" /\ last.stepped /\ last.points = PelletPoints
  /\ count_pellets(tiles) = 0 /\ caught_by_ghost /\ is_frozen /\ ~level_complete


\* the cells of the board b a ghost can be spawned on: walkable and not the
\* player's
SpawnCandidates(b, ppos) ==
  {c \in (1..(b.w - 2)) \X (1..(b.h - 2)) : board_is_walkable(b, c[1], c[2]) /\ c # ppos}

\* the corners among them
CornerCandidates(b, ppos) ==
  {c \in SpawnCandidates(b, ppos) : \E k \in 1..4 : board_corners(b)[k] = c}

\* what C32 says of every start: max(0, ghosts_count) ghosts; those taken from
\* the candidates are the first ones of the list and stand on pairwise distinct
\* candidate cells, corners before other cells; the others stand on the center
SpawnShape(b, n, ppos, res) ==
  LET cand == SpawnCandidates(b, ppos)
      crn == CornerCandidates(b, ppos)
      taken == {i \in 1..Len(res) : res[i] \in cand}
  IN /\ Len(res) = Max(0, n)
     /\ \A i \in 1..Len(res) : i \notin taken => res[i] = board_center(b)
     /\ \A i \in taken : \A j \in 1..Len(res) : j < i => j \in taken /\ res[j] # res[i]
     /\ \A i \in taken : res[i] \notin crn =>
          /\ \A j \in 1..Len(res) : (j > i /\ j \in taken) => res[j] \notin crn
          /\ \A c \in crn : \E j \in 1..(i - 1) : res[j] = c

\* C32 as claimed: the shape above, and a ghost is put on the center only when
\* ghosts_count exceeds the number of walkable cells other than the player's.
C32_Original ==
  probe.op = "spawn_ghosts" =>
    LET n == probe.arg[1]
        ppos == probe.arg[2]
        res == probe.res
    IN /\ SpawnShape(probe, n, ppos, res)
       /\ (\E i \in 1..Len(res) : res[i] \notin SpawnCandidates(probe, ppos))
            => n > Cardinality(SpawnCandidates(probe, ppos))

\* what holds of every start: the shape above, and a ghost is put on the center
\* only when ghosts_count exceeds the number of walkable corners other than the
\* player's cell
C32_CornersOnly ==
  probe.op = "spawn_ghosts" =>
    LET n == probe.arg[1]
        ppos == probe.arg[2]
        res == probe.res
    IN /\ SpawnShape(probe, n, ppos, res)
       /\ (\E i \in 1..Len(res) : res[i] \notin SpawnCandidates(probe, ppos))
            => n > Cardinality(CornerCandidates(probe, ppos))

\* reachability of the case that refutes C32 as claimed: on the 3 x 6 board with
\* no wall, three ghosts were asked for, three cells other than the player's are
\* walkable, and the third ghost is on the center, the player's cell
C32_SurplusWithFreeCell ==
  /\ probe.op = "spawn_ghosts" /\ probe.w = 3 /\ probe.h = 6
  /\ probe.arg[1] = 3
  /\ Cardinality(SpawnCandidates(probe, probe.arg[2])) = 3
  /\ probe.res = << <<1, 1>>, <<1, 4>>, <<1, 3>> >>
  /\ probe.arg[2] = <<1, 3>>

\* C32, the scan: on a 5 x 5 board with a wall on a corner four ghosts stand on
\* the three corners left and on the first walkable cell of the scan
C32_WitnessScan ==
  /\ probe.op = "spawn_ghosts" /\ probe.w = 5 /\ probe.h = 5
  /\ probe.arg[1] = 4
  /\ probe.tiles[<<1, 1>>] = TILE_WALL
  /\ probe.res = << <<3, 1>>, <<1, 3>>, <<3, 3>>, <<2, 1>> >>


\* a move from p in direction d on the board m is legal and ends on q
WrapsTo(m, p, d, q) == board_can_move(m, p, d) /\ board_apply_move(m, p, d) = q

\* C33: in every maze generate_maze produces no inner cell of the center row or
\* of the center column is a WALL, the center row is a tunnel row and the center
\* column a tunnel column, and a move off either end of the center row or column
\* ends on the inner cell of the opposite edge.
C33_Tunnels ==
  maze.a.phase = "done" =>
    LET m == maze.a
        ctr == maze_center(m.w, m.h)
    IN /\ \A x \in 1..(m.w - 2) : m.tiles[<<x, ctr[2]>>] # TILE_WALL
       /\ \A y \in 1..(m.h - 2) : m.tiles[<<ctr[1], y>>] # TILE_WALL
       /\ ctr[2] \in m.tunnel_rows
       /\ ctr[1] \in m.tunnel_cols
       /\ WrapsTo(m, <<1, ctr[2]>>, <<-1, 0>>, <<m.w - 2, ctr[2]>>)
       /\ WrapsTo(m, <<m.w - 2, ctr[2]>>, <<1, 0>>, <<1, ctr[2]>>)
       /\ WrapsTo(m, <<ctr[1], 1>>, <<0, -1>>, <<ctr[1], m.h - 2>>)
       /\ WrapsTo(m, <<ctr[1], m.h - 2>>, <<0, 1>>, <<ctr[1], 1>>)

\* C33 witness: a finished 7x7 maze that still has walls, whose center row 3 and
\* center column 3 are tunnels; a move to the left from (1, 3) ends on (5, 3) and
\* a move down from (3, 5) on (3, 1)
C33_Witness ==
  /\ maze.a.phase = "done" /\ maze.a.w = 7 /\ maze.a.h = 7
  /\ WallCells(maze.a) # {}
  /\ maze.a.tunnel_rows = {3} /\ maze.a.tunnel_cols = {3}
  /\ board_apply_move(maze.a, <<1, 3>>, <<-1, 0>>) = <<5, 3>>
  /\ board_apply_move(maze.a, <<3, 5>>, <<0, 1>>) = <<3, 1>>


\* the inner cells of the board m that hold tile k
CellsOf(m, k) == {c \in DOMAIN m.tiles : InInner(m, c) /\ m.tiles[c] = k}

\* C34: start_game on a generated maze turns exactly min(6, number of PELLET
\* cells) cells into POWER, every one of them a PELLET cell before, changes no
\* other cell (so PELLET plus POWER cells are as many as before and WALL and
\* EMPTY cells are as they were); on a board without a maze it changes no cell
\* and the board has no POWER cell.
C34_PowerPlacement ==
  [][ (maze.a.phase # "started" /\ maze'.a.phase = "started") =>
        LET m == maze.a
            m2 == maze'.a
            changed == {c \in DOMAIN m.tiles : m2.tiles[c] # m.tiles[c]}
        IN /\ DOMAIN m2.tiles = DOMAIN m.tiles
           /\ IF m.phase = "done"
                THEN /\ changed \subseteq CellsOf(m, TILE_PELLET)
                     /\ \A c \in changed : m2.tiles[c] = TILE_POWER
                     /\ Cardinality(changed)
                          = Min(PowerCount, Cardinality(CellsOf(m, TILE_PELLET)))
                     /\ Cardinality(PelletCells(m2)) = Cardinality(PelletCells(m))
                     /\ WallCells(m2) = WallCells(m)
                ELSE /\ changed = {}
                     /\ CellsOf(m2, TILE_POWER) = {} ]_vars

\* C34 witness: a game started on a 7x7 maze with walls: six power pellets, and
\* pellets left
C34_Witness ==
  /\ maze.a.phase = "started" /\ maze.b.phase = "done"
  /\ maze.a.w = 7 /\ maze.a.h = 7 /\ WallCells(maze.a) # {}
  /\ Cardinality(CellsOf(maze.a, TILE_POWER)) = PowerCount
  /\ CellsOf(maze.a, TILE_PELLET) # {}
  /\ CellsOf(maze.a, TILE_POWER) \subseteq CellsOf(maze.b, TILE_PELLET)

\* C34: a game started on a 4x4 maze, which has four pellet cells: all four are
\* power pellets
C34_WitnessFew ==
  /\ maze.a.phase = "started" /\ maze.b.phase = "done"
  /\ maze.a.w = 4 /\ maze.a.h = 4
  /\ Cardinality(CellsOf(maze.b, TILE_PELLET)) = 4
  /\ Cardinality(CellsOf(maze.a, TILE_POWER)) = 4

\* C34: a game started on a 5x5 board without a maze: no power pellet
C34_WitnessPlain ==
  /\ maze.a.phase = "started" /\ maze.b.phase = "plain"
  /\ maze.a.w = 5 /\ maze.a.h = 5
  /\ CellsOf(maze.a, TILE_POWER) = {}
  /\ Cardinality(CellsOf(maze.a, TILE_PELLET)) = 9


\* the mode is CHASE
ChaseMode == ~super_active

\* C35 as claimed: after start_game and after every tick, when the simulation
\* is not frozen and the mode is CHASE, no ghost is on the player's cell.
C35_Original ==
  (last.op \in {"start", "tick"} /\ ~is_frozen /\ ChaseMode) => ~GhostOn(ghosts, player)


\* reachability of the case that refutes C35 as claimed: start_game put the last
\* ghost on the center, the player's cell, and after the first tick, which was
\* given no direction, the ghost is still there, the simulation runs unfrozen in
\* CHASE mode and nobody is caught
C35_GhostOnPlayer ==
  /\ IsTick /\ state = 1 /\ last.dir = Zero
  /\ is_running /\ ~is_frozen /\ ~caught_by_ghost /\ ChaseMode
  /\ player = center_position
  /\ Len(ghosts) = ghosts_count
  /\ ghosts[Len(ghosts)].pos = player

\* what holds of every tick: a tick that ran a ghost pass, or in which the
\* player made a movement, and that ended unfrozen leaves no ghost on the
\* player's cell
C35_AfterCollisionCheck ==
  (IsTick /\ ~is_frozen /\ (last.pass \/ last.moved)) => ~GhostOn(ghosts, player)


\* C36: a tick given None stops the run (is_running becomes False) unless its
\* ghost pass caught the player, in which case it leaves the simulation frozen;
\* the second of two ticks given None in a row stops the run, and a third never
\* happens.
C36_QuitWithinTwo ==
  [][ (IsTick' /\ last'.dir = None) =>
        /\ ~is_running' \/ (last'.exit = "caught_pass" /\ is_frozen' /\ caught_by_ghost')
        /\ is_frozen => ~is_running'
        /\ last'.quits >= 2 => ~is_running'
        /\ last'.quits <= 2 ]_vars

\* C36 witness: two ticks in a row were given None; the ghost pass of the first
\* caught the player, the second, frozen, stopped the run
C36_Witness ==
  /\ IsTick /\ last.dir = None /\ last.quits = 2 /\ last.exit = "frozen"
  /\ ~is_running /\ is_frozen /\ caught_by_ghost

\* C36: a tick given None whose ghost pass caught the player: the run goes on
C36_WitnessCaught ==
  /\ IsTick /\ last.dir = None /\ last.quits = 1 /\ last.exit = "caught_pass"
  /\ is_running /\ is_frozen

\* C36: a tick given None that ran a ghost pass and stopped the run
C36_WitnessQuit ==
  /\ IsTick /\ last.dir = None /\ last.quits = 1 /\ last.pass /\ last.exit = "quit"
  /\ ~is_running /\ ~is_frozen


\* C37: in every state caught implies frozen and the caught flag and the
\* level-complete flag are not both set; no tick of the run loop clears is_frozen,
\* caught_by_ghost or level_complete once set.
C37_TerminalStable ==
  /\ [](caught_by_ghost => is_frozen)
  /\ [](~(caught_by_ghost /\ level_complete))
  /\ [][ /\ is_frozen => is_frozen'
         /\ caught_by_ghost => caught_by_ghost'
         /\ level_complete => level_complete' ]_vars

\* C37 witness: a tick given a direction found the simulation frozen after a
\* catch and left it frozen and caught, the level not complete
C37_Witness ==
  /\ IsTick /\ last.exit = "frozen" /\ last.dir \in DirSet
  /\ is_frozen /\ caught_by_ghost /\ ~level_complete /\ is_running

\* C37: the same after a win with freeze_on_win
C37_WitnessWon ==
  /\ IsTick /\ last.exit = "frozen" /\ last.dir \in DirSet
  /\ is_frozen /\ level_complete /\ ~caught_by_ghost /\ is_running


\* the tick got to the win check at the end of update_game
ReachedWinCheck(h) == h.exit \in {"end", "won_freeze"}

\* C38: in a game started with ghosts_count 0 a tick that gets to the win check
\* is the first to do so, marks the level complete whatever pellets are left and
\* whether the player moved or not, and freezes the simulation or stops the run.
C38_ZeroGhostsWin ==
  [][ (IsTick' /\ ghosts_count <= 0 /\ ReachedWinCheck(last')) =>
        /\ ~level_complete
        /\ level_complete'
        /\ ghosts' = <<>>
        /\ IF freeze_on_win THEN is_frozen' /\ is_running'
                            ELSE ~is_running' /\ ~is_frozen' ]_vars

\* C38 witness: with no ghost the first tick, given no direction, completed the
\* level with the player still on the center, nothing scored and pellets left
C38_Witness ==
  /\ IsTick /\ ghosts_count = 0 /\ ReachedWinCheck(last)
  /\ level_complete /\ ~last.moved /\ last.dir = Zero
  /\ player = center_position /\ score = 0
  /\ count_pellets(tiles) > 0


\* the win condition of update_game holds of the board and the ghosts
WinCondition == count_pellets(tiles) = 0 \/ ghosts = <<>>

\* the ticks it takes _speed_acc to get from 0 to the highest threshold
TicksToStep == (Max(One, cell_aspect) + speed_scale - 1) \div speed_scale

\* C39: if after a tick no pellet or no ghost is left and the simulation is
\* neither frozen nor stopped (and the ticks counted leave room for the ticks the
\* pacing can take), then, with ticks that are never given None, the level is
\* eventually marked complete or the player is caught.
C39_EventuallyComplete ==
  ( /\ IsTick /\ WinCondition /\ ~is_frozen /\ is_running
    /\ speed_scale > 0 /\ state + TicksToStep <= LiveTicks )
    ~> (level_complete \/ caught_by_ghost)

\* C39 witness: the tick in which the last ghost was eaten by the ghost pass was
\* paced out and returned before the win check: no ghost is left, the level is
\* not complete, the simulation runs unfrozen
C39_Witness ==
  /\ IsTick /\ last.eaten > 0 /\ ghosts = <<>> /\ ghosts_count > 0
  /\ last.pass /\ last.exit = "paced"
  /\ ~level_complete /\ is_running /\ ~is_frozen
  /\ state + TicksToStep <= LiveTicks

\* C39: the level was completed by the tick after such a tick
C39_WitnessCompleted ==
  /\ IsTick /\ ghosts = <<>> /\ ghosts_count > 0 /\ last.eaten = 0
  /\ count_pellets(tiles) > 0
  /\ level_complete /\ ReachedWinCheck(last)

\* C39: a tick that began with no pellet left ended caught, the level not complete
C39_WitnessCaught ==
  /\ IsTick /\ count_pellets(tiles) = 0 /\ last.points = 0
  /\ caught_by_ghost /\ ~level_complete

====
